---- MODULE Spec2Model ----
(***************************************************************************)
(* A model of the gftools-builder3 build-graph engine:                     *)
(*   - BuildGraph (src/src/buildsystem/graph.rs): add_path, add_dependency *)
(*     over a petgraph Graph whose edges carry shared Artifact cells;      *)
(*   - the orchestrator (src/src/buildsystem/orchestrator.rs): run,        *)
(*     trigger_build, spawn_build, run_op, run_with_semaphore.             *)
(***************************************************************************)
EXTENDS Integers, Sequences, FiniteSets, TLC

VARIABLES graph, before, calls,
          job_limit, runPc, runResult, snapshot, futures, pc, cursor, result,
          status, execCount, permits, console, consoleWait, log,
          store, held, holder, acalls,
          document, config, toGraph

cfgVars == <<document, config, toGraph>>
buildVars == <<graph, before, calls>>
artVars == <<store, held, holder, acalls>>
runVars == <<job_limit, runPc, runResult, snapshot, futures, pc, cursor, result,
             status, execCount, permits, console, consoleWait, log>>
vars == <<graph, before, calls, job_limit, runPc, runResult, snapshot, futures,
          pc, cursor, result, status, execCount, permits, console, consoleWait,
          log, store, held, holder, acalls, document, config, toGraph>>

(***************************************************************************)
(* Bounds of the model.                                                    *)
(***************************************************************************)
MaxPaths == 2
MaxDeps == 1
MaxDepPaths == 3
MaxSteps == 4
MaxSlot == 1
MaxJobs == 2
MaxCalls == 3

None == "None"

(***************************************************************************)
(* Generic helpers.                                                        *)
(***************************************************************************)
Range(s) == {s[i] : i \in 1..Len(s)}

Reverse(s) == [i \in 1..Len(s) |-> s[Len(s) + 1 - i]]

RemoveAt(s, i) == [j \in 1..(Len(s) - 1) |-> IF j < i THEN s[j] ELSE s[j + 1]]

SetMax(S) == CHOOSE x \in S : \A y \in S : y <= x

SeqsUpTo(S, n) == UNION {[1..k -> S] : k \in 0..n}

(***************************************************************************)
(* DataKind and the operations.  An operation is represented by what the   *)
(* graph and the orchestrator observe of it: shortname, identifier and the *)
(* declared input and output kinds.                                        *)
(***************************************************************************)
DataKind == {"Any", "Path", "Bytes", "SourceFont", "BinaryFont"}

DefaultKinds == <<"Any">>

Source == [shortname |-> "Source", identifier |-> "Source",
           input_kinds |-> DefaultKinds, output_kinds |-> DefaultKinds]

Sink == [shortname |-> "Sink", identifier |-> "Sink",
         input_kinds |-> DefaultKinds, output_kinds |-> DefaultKinds]

FileToBytes == [shortname |-> "ToBytes", identifier |-> "ToBytes",
                input_kinds |-> <<"Path">>, output_kinds |-> <<"Bytes">>]

BytesToTempFile == [shortname |-> "ToTempFile", identifier |-> "ToTempFile",
                    input_kinds |-> <<"Bytes">>, output_kinds |-> <<"Path">>]

Fontc == [shortname |-> "Fontc", identifier |-> "Fontc",
          input_kinds |-> <<"Path">>, output_kinds |-> <<"Bytes">>]

\* Fix with two different argument strings: the identifier includes them.
FixA == [shortname |-> "Fix", identifier |-> "Fix-a",
         input_kinds |-> <<"Path">>, output_kinds |-> <<"Path">>]

FixB == [shortname |-> "Fix", identifier |-> "Fix-b",
         input_kinds |-> <<"Path">>, output_kinds |-> <<"Path">>]

Compress == [shortname |-> "Compress", identifier |-> "Compress",
             input_kinds |-> <<"Bytes">>, output_kinds |-> <<"Bytes">>]

BuildStat == [shortname |-> "BuildStat", identifier |-> "BuildStat",
              input_kinds |-> DefaultKinds, output_kinds |-> DefaultKinds]

\* PartialEq for dyn Operation: equality of identifiers.
OpEq(a, b) == a.identifier = b.identifier

(***************************************************************************)
(* RawOperationOutput: the contents of an Artifact cell.  An               *)
(* OperationOutput is a reference to a cell: an index into graph.cells.    *)
(***************************************************************************)
NamedFile(name) == [kind |-> "NamedFile", name |-> name]

TemporaryFile(file) == [kind |-> "TemporaryFile", file |-> file]

InMemoryBytes(bytes) == [kind |-> "InMemoryBytes", bytes |-> bytes]

\* The path of the n-th temporary file created (NamedTempFile::new).
TempPaths == <<"/tmp/1", "/tmp/2", "/tmp/3", "/tmp/4", "/tmp/5", "/tmp/6">>

TempPath(n) == TempPaths[n]

\* PartialEq for RawOperationOutput.
RawEq(a, b) ==
    CASE a.kind = "NamedFile" /\ b.kind = "NamedFile" -> a.name = b.name
      [] a.kind = "TemporaryFile" /\ b.kind = "TemporaryFile" -> a.file = b.file
      [] a.kind = "InMemoryBytes" /\ b.kind = "InMemoryBytes" -> a.bytes = b.bytes
      [] OTHER -> FALSE

\* OperationOutput::to_filename: the new contents of the cell, the name
\* returned and the number of temporary files created so far.
to_filename(raw, ntemp) ==
    CASE raw.kind = "NamedFile" ->
           [raw |-> raw, name |-> raw.name, ntemp |-> ntemp]
      [] raw.kind = "TemporaryFile" /\ raw.file # None ->
           [raw |-> raw, name |-> raw.file, ntemp |-> ntemp]
      [] raw.kind = "TemporaryFile" /\ raw.file = None ->
           [raw |-> TemporaryFile(TempPath(ntemp + 1)),
            name |-> TempPath(ntemp + 1), ntemp |-> ntemp + 1]
      [] raw.kind = "InMemoryBytes" ->
           [raw |-> TemporaryFile(TempPath(ntemp + 1)),
            name |-> TempPath(ntemp + 1), ntemp |-> ntemp + 1]

(***************************************************************************)
(* The petgraph Graph as BuildGraph uses it.  Nodes are numbered from 1    *)
(* (NodeIndex 0 is node 1).  graph.edges lists the edges in the order they *)
(* were added; petgraph walks the edges of a node newest first.            *)
(***************************************************************************)
BuildEdge(output, output_slot) == [output |-> output, output_slot |-> output_slot]

EmptyMap == [x \in {} |-> 0]

\* HashMap::insert
MapInsert(m, k, v) == [x \in DOMAIN m \cup {k} |-> IF x = k THEN v ELSE m[x]]

\* BuildGraph::new
NewGraph == [nodes |-> <<Source>>, edges |-> <<>>, cells |-> <<>>,
             source |-> 1, sinks |-> <<>>, target_nodes |-> EmptyMap, ntemp |-> 0]

NodeIds(g) == 1..Len(g.nodes)

\* edges_directed(n, Outgoing), in iteration order.
OutEdges(g, n) == SelectSeq(Reverse(g.edges), LAMBDA e : e.source = n)

\* edges_directed(n, Incoming), in iteration order.
InEdges(g, n) == SelectSeq(Reverse(g.edges), LAMBDA e : e.target = n)

\* externals(Outgoing): the nodes without outgoing edges.
Externals(g) == {n \in NodeIds(g) : OutEdges(g, n) = <<>>}

\* Graph::find_edge: the position of the edge a -> b, 0 if there is none.
find_edge(g, a, b) ==
    LET S == {i \in 1..Len(g.edges) : g.edges[i].source = a /\ g.edges[i].target = b}
    IN  IF S = {} THEN 0 ELSE SetMax(S)

\* Graph::add_node
add_node(g, op) == [g EXCEPT !.nodes = Append(@, op)]

\* Graph::update_edge: replace the weight of a -> b when it exists, else add it.
update_edge(g, a, b, w) ==
    LET i == find_edge(g, a, b)
        e == [source |-> a, target |-> b, output |-> w.output,
              output_slot |-> w.output_slot]
    IN  IF i = 0 THEN [g EXCEPT !.edges = Append(@, e)]
        ELSE [g EXCEPT !.edges[i] = e]

\* Graph::remove_edge
remove_edge(g, i) == [g EXCEPT !.edges = RemoveAt(@, i)]

\* A new Artifact cell (RawOperationOutput::into)
new_cell(g, raw) == [g EXCEPT !.cells = Append(@, raw)]

\* The first element of a sequence satisfying a test, as a 0-or-1 element
\* sequence (Iterator::find).
FindFirst(s, Test(_)) ==
    LET m == SelectSeq(s, Test) IN IF m = <<>> THEN <<>> ELSE <<m[1]>>

(***************************************************************************)
(* The Artifact cells together with the files behind them.  A store holds  *)
(* the cells (Arc<Mutex<RawOperationOutput>>), the files on disk with      *)
(* their contents, and the number of temporary files created so far.       *)
(* Every method below runs under the mutex of the cell: it is one step.    *)
(***************************************************************************)
\* HashMap::remove, used for the deletion of a file.
MapRemove(m, k) == [x \in DOMAIN m \ {k} |-> m[x]]

EmptyStore == [cells |-> <<>>, disk |-> EmptyMap, ntemp |-> 0]

\* What the file system can answer when to_filename has to create a file.
IoOutcomes(raw) ==
    CASE raw.kind = "TemporaryFile" /\ raw.file = None -> {"ok", "create_fails"}
      [] raw.kind = "InMemoryBytes" -> {"ok", "create_fails", "write_fails"}
      [] OTHER -> {"ok"}

\* Dropping the value of a cell: a NamedTempFile handle removes its file.
drop_raw(disk, raw) ==
    IF raw.kind = "TemporaryFile" /\ raw.file # None
    THEN MapRemove(disk, raw.file) ELSE disk

\* std::fs::write: creates the file or replaces its contents.
fs_write(st, path, bytes) == [st EXCEPT !.disk = MapInsert(@, path, bytes)]

\* A variant of to_filename that creates a fresh temporary file on every
\* call on a temporary or in-memory cell, dropping the handle it replaces.
cell_to_filename_fresh(st, c, io) ==
    LET raw == st.cells[c]
        path == TempPath(st.ntemp + 1)
    IN  IF raw.kind = "NamedFile"
        THEN [st |-> st, result |-> "Ok", value |-> raw.name]
        ELSE [st |-> [st EXCEPT !.cells[c] = TemporaryFile(path),
                                !.ntemp = @ + 1,
                                !.disk = MapInsert(drop_raw(@, raw), path,
                                                   IF raw.kind = "InMemoryBytes"
                                                   THEN raw.bytes ELSE "")],
              result |-> "Ok", value |-> path]

\* A variant of to_filename that leaves an in-memory cell in memory after
\* writing its bytes to a temporary file.
cell_to_filename_forgetful(st, c, io) ==
    LET raw == st.cells[c]
        r == to_filename(raw, st.ntemp)
    IN  [st |-> [st EXCEPT !.cells[c] = IF raw.kind = "InMemoryBytes" THEN raw ELSE r.raw,
                           !.ntemp = r.ntemp,
                           !.disk = IF r.ntemp = st.ntemp THEN @
                                    ELSE MapInsert(@, r.name,
                                                   IF raw.kind = "InMemoryBytes"
                                                   THEN raw.bytes ELSE "")],
         result |-> "Ok", value |-> r.name]

\* OperationOutput::to_filename on cell c of the store.
cell_to_filename(st, c, io) ==
    LET raw == st.cells[c]
        r == to_filename(raw, st.ntemp)
    IN  IF r.ntemp = st.ntemp
        THEN [st |-> st, result |-> "Ok", value |-> r.name]
        ELSE IF io = "create_fails"
        THEN [st |-> st, result |-> "Other", value |-> None]
        ELSE IF raw.kind = "InMemoryBytes" /\ io = "write_fails"
        THEN \* the file was created and is removed when temp_file drops
             [st |-> [st EXCEPT !.ntemp = r.ntemp], result |-> "Other", value |-> None]
        ELSE [st |-> [st EXCEPT !.cells[c] = r.raw,
                                !.ntemp = r.ntemp,
                                !.disk = MapInsert(@, r.name,
                                                   IF raw.kind = "InMemoryBytes"
                                                   THEN raw.bytes ELSE "")],
              result |-> "Ok", value |-> r.name]

\* A variant of set_bytes that writes the bytes into the file of a named
\* cell and leaves the cell a NamedFile.
cell_set_bytes_in_place(st, c, bytes) ==
    IF st.cells[c].kind = "NamedFile"
    THEN fs_write(st, st.cells[c].name, bytes)
    ELSE [st EXCEPT !.cells[c] = InMemoryBytes(bytes),
                    !.disk = drop_raw(@, st.cells[c])]

\* OperationOutput::set_bytes: the previous value of the cell is dropped.
cell_set_bytes(st, c, bytes) ==
    [st EXCEPT !.cells[c] = InMemoryBytes(bytes),
               !.disk = drop_raw(@, st.cells[c])]

\* OperationOutput::is_named_file
cell_is_named_file(st, c) == st.cells[c].kind = "NamedFile"

\* OperationOutput::to_bytes
cell_to_bytes(st, c) ==
    LET raw == st.cells[c]
        path == IF raw.kind = "NamedFile" THEN raw.name ELSE raw.file
    IN  CASE raw.kind = "InMemoryBytes" -> [result |-> "Ok", value |-> raw.bytes]
          [] raw.kind = "TemporaryFile" /\ raw.file = None ->
               [result |-> "Other", value |-> None]
          [] OTHER ->
               IF path \in DOMAIN st.disk
               THEN [result |-> "Ok", value |-> st.disk[path]]
               ELSE [result |-> "Other", value |-> None]

\* A variant of set_contents that writes named files only and leaves every
\* other cell as it is.
set_contents_named_only(st, c, bytes, named, io) ==
    IF named
    THEN LET r == cell_to_filename(st, c, io)
         IN  IF r.result = "Ok"
             THEN [st |-> fs_write(r.st, r.value, bytes), result |-> "Ok"]
             ELSE [st |-> r.st, result |-> r.result]
    ELSE [st |-> st, result |-> "Ok"]

\* A variant of set_contents that replaces the value of the cell by the
\* bytes whatever the cell is.
set_contents_always_bytes(st, c, bytes, named, io) ==
    [st |-> cell_set_bytes(st, c, bytes), result |-> "Ok"]

\* OperationOutput::set_contents after its is_named_file test returned
\* named: to_filename and fs::write, or else set_bytes.
set_contents_write(st, c, bytes, named, io) ==
    IF named
    THEN LET r == cell_to_filename(st, c, io)
         IN  IF r.result = "Ok"
             THEN [st |-> fs_write(r.st, r.value, bytes), result |-> "Ok"]
             ELSE [st |-> r.st, result |-> r.result]
    ELSE [st |-> cell_set_bytes(st, c, bytes), result |-> "Ok"]

\* OperationOutput::set_contents with no other call in between.
cell_set_contents(st, c, bytes, io) ==
    set_contents_write(st, c, bytes, cell_is_named_file(st, c), io)

(***************************************************************************)
(* BuildGraph::add_path.  operations is a sequence of steps                *)
(* [file |-> None or a file name, op |-> operation].  The loop state st    *)
(* holds the graph, current_node, current_kind and op_nodes.               *)
(***************************************************************************)
default_output_for_kind(k) ==
    CASE k = "Path" -> TemporaryFile(None)
      [] k = "Bytes" -> InMemoryBytes(<<>>)
      [] OTHER -> InMemoryBytes(<<>>)

computed_output(source_filename, step, index, current_kind) ==
    IF step.file # None THEN NamedFile(step.file)
    ELSE IF index = 0 THEN NamedFile(source_filename)
    ELSE default_output_for_kind(current_kind)

\* A conversion table that has a converter for every mismatch.
conv_every_mismatch(current_kind, want_kind) ==
    IF want_kind = "Path" THEN <<[op |-> BytesToTempFile, kind |-> "Path"]>>
    ELSE <<[op |-> FileToBytes, kind |-> "Bytes"]>>

\* The converter for a kind mismatch, as a 0-or-1 element sequence of
\* <<converter, new kind>>.
conv(current_kind, want_kind) ==
    CASE current_kind = "Path" /\ want_kind = "Bytes" -> <<[op |-> FileToBytes, kind |-> "Bytes"]>>
      [] current_kind = "Bytes" /\ want_kind = "Path" -> <<[op |-> BytesToTempFile, kind |-> "Path"]>>
      [] OTHER -> <<>>

first_kind(kinds) == IF kinds = <<>> THEN "Any" ELSE kinds[1]

need_conversion(want_kind, current_kind) ==
    ~(want_kind = "Any" \/ want_kind = current_kind)

\* A coalescing test that never finds the operation.
same_node_never(g, e, op, is_source, computed) == FALSE

\* A coalescing test that does not look at the source file.
same_node_any_source(g, e, op, is_source, computed) == OpEq(g.nodes[e.target], op)

\* The coalescing test of add_path on an outgoing edge of the current node.
same_node(g, e, op, is_source, computed) ==
    LET same_op == OpEq(g.nodes[e.target], op)
    IN  IF is_source THEN same_op /\ RawEq(g.cells[e.output], computed)
        ELSE same_op

\* A lookup that never finds the converter.
existing_conv_none(g, out, cv) == <<>>

\* The converter of the wanted type that current_node already feeds, if any.
existing_conv(g, out, cv) ==
    IF cv = <<>> THEN <<>>
    ELSE FindFirst(out, LAMBDA e : g.nodes[e.target].shortname = cv[1].op.shortname)

\* One iteration of the loop over the operations (index counts from 0).
add_path_step(st, source_filename, step, index) ==
    LET g == st.g
        op == step.op
        computed == computed_output(source_filename, step, index, st.current_kind)
        is_source == st.current_node = g.source
        out == OutEdges(g, st.current_node)
        fresh == is_source \/ out = <<>>
        g0 == IF fresh THEN new_cell(g, computed) ELSE g
        broadcast_output == IF fresh THEN Len(g0.cells) ELSE out[1].output
        want_kind == first_kind(op.input_kinds)
        cv == IF need_conversion(want_kind, st.current_kind)
              THEN conv(st.current_kind, want_kind) ELSE <<>>
        found_conv == existing_conv(g, out, cv)
        g1 == IF cv = <<>> \/ found_conv # <<>> THEN g0
              ELSE update_edge(add_node(g0, cv[1].op), st.current_node,
                               Len(g0.nodes) + 1, BuildEdge(broadcast_output, 0))
        node1 == IF cv = <<>> THEN st.current_node
                 ELSE IF found_conv # <<>> THEN found_conv[1].target
                 ELSE Len(g1.nodes)
        kind1 == IF cv = <<>> THEN st.current_kind ELSE cv[1].kind
        existing_node ==
            FindFirst(OutEdges(g1, node1),
                      LAMBDA e : same_node(g1, e, op, is_source, computed))
        ok == first_kind((IF existing_node # <<>> THEN g1.nodes[existing_node[1].target]
                          ELSE op).output_kinds)
        kind2 == IF ok # "Any" THEN ok ELSE kind1
    IN  IF existing_node # <<>>
        THEN [g |-> [g1 EXCEPT !.cells = IF Len(g1.nodes) = Len(g.nodes) THEN g.cells ELSE @],
              current_node |-> existing_node[1].target,
              current_kind |-> kind2,
              op_nodes |-> Append(st.op_nodes, existing_node[1].target)]
        ELSE LET g2 == update_edge(add_node(g1, op), node1, Len(g1.nodes) + 1,
                                   BuildEdge(broadcast_output, 0))
             IN  [g |-> g2,
                  current_node |-> Len(g2.nodes),
                  current_kind |-> kind2,
                  op_nodes |-> Append(st.op_nodes, Len(g2.nodes))]

RECURSIVE add_path_loop(_, _, _, _)
add_path_loop(st, source_filename, operations, i) ==
    IF i > Len(operations) THEN st
    ELSE add_path_loop(add_path_step(st, source_filename, operations[i], i - 1),
                       source_filename, operations, i + 1)

\* A variant that leaves the other outgoing edges as they were.
relabel_none(g, current_node, outgoing, final_output) == g

\* Relabel the listed outgoing edges of current_node with final_output.
RECURSIVE relabel(_, _, _, _)
relabel(g, current_node, outgoing, final_output) ==
    IF outgoing = <<>> THEN g
    ELSE relabel(update_edge(g, current_node, outgoing[1].target,
                             BuildEdge(final_output, outgoing[1].output_slot)),
                 current_node, Tail(outgoing), final_output)

\* A variant that keeps a single Sink node and hangs every target on it.
add_sink_shared(g, current_node, sink_filename) ==
    LET ga == new_cell(g, NamedFile(sink_filename))
        final_output == Len(ga.cells)
        gb == relabel(ga, current_node, OutEdges(ga, current_node), final_output)
        gc == IF g.sinks = <<>> THEN add_node(gb, Sink) ELSE gb
        sink_node == IF g.sinks = <<>> THEN Len(gc.nodes) ELSE g.sinks[1]
        gd == update_edge(gc, current_node, sink_node, BuildEdge(final_output, 0))
    IN  [gd EXCEPT !.sinks = Append(@, sink_node),
                   !.target_nodes = MapInsert(@, sink_filename, current_node)]

\* The terminal sink handling of add_path.
add_sink(g, current_node, sink_filename) ==
    LET ga == new_cell(g, NamedFile(sink_filename))
        final_output == Len(ga.cells)
        gb == relabel(ga, current_node, OutEdges(ga, current_node), final_output)
        gc == add_node(gb, Sink)
        sink_node == Len(gc.nodes)
        gd == update_edge(gc, current_node, sink_node, BuildEdge(final_output, 0))
    IN  [gd EXCEPT !.sinks = Append(@, sink_node),
                   !.target_nodes = MapInsert(@, sink_filename, current_node)]

\* A variant that returns the nodes the call created, converters included,
\* instead of the node of each operation.
add_path_created(g, source_filename, operations, sink_filename) ==
    LET st == add_path_loop([g |-> g, current_node |-> g.source,
                             current_kind |-> "Path", op_nodes |-> <<>>],
                            source_filename, operations, 1)
    IN  [g |-> add_sink(st.g, st.current_node, sink_filename),
         op_nodes |-> [i \in 1..(Len(st.g.nodes) - Len(g.nodes)) |-> Len(g.nodes) + i]]

add_path(g, source_filename, operations, sink_filename) ==
    LET st == add_path_loop([g |-> g, current_node |-> g.source,
                             current_kind |-> "Path", op_nodes |-> <<>>],
                            source_filename, operations, 1)
    IN  [g |-> add_sink(st.g, st.current_node, sink_filename),
         op_nodes |-> st.op_nodes]

(***************************************************************************)
(* BuildGraph::add_dependency.                                             *)
(***************************************************************************)
\* The filter over the outgoing edges of the producer: to_filename is called
\* on the artifact of every edge that lands on a Sink, in iteration order.
\* Returns the graph (cells may have been materialized) and the matches.
RECURSIVE sink_edges(_, _, _, _)
sink_edges(g, es, target_name, acc) ==
    IF es = <<>> THEN [g |-> g, found |-> acc]
    ELSE IF g.nodes[es[1].target].shortname = "Sink"
    THEN LET r == to_filename(g.cells[es[1].output], g.ntemp)
             g1 == [g EXCEPT !.cells[es[1].output] = r.raw, !.ntemp = r.ntemp]
         IN  sink_edges(g1, Tail(es), target_name,
                        IF r.name = target_name THEN Append(acc, es[1]) ELSE acc)
    ELSE sink_edges(g, Tail(es), target_name, acc)

\* Redirect each found sink edge through dependent_node.
RECURSIVE redirect(_, _, _, _, _)
redirect(g, found, producer_node, dependent_node, input_slot) ==
    IF found = <<>> THEN g
    ELSE LET edge_idx == find_edge(g, producer_node, found[1].target)
             g1 == IF edge_idx # 0 THEN remove_edge(g, edge_idx) ELSE g
             g2 == update_edge(g1, dependent_node, found[1].target,
                               BuildEdge(found[1].output, input_slot))
         IN  redirect(g2, Tail(found), producer_node, dependent_node, input_slot)

\* A variant that moves the Sink edge of the target without adding the edge
\* from the producer to the dependent node.
wire_dependency_moved_only(g, producer_node, target_name, dependent_node, input_slot) ==
    LET se == sink_edges(g, OutEdges(g, producer_node), target_name, <<>>)
    IN  redirect(se.g, se.found, producer_node, dependent_node, input_slot)

\* add_dependency once the producer of the target has been found.
wire_dependency(g, producer_node, target_name, dependent_node, input_slot) ==
    LET out == OutEdges(g, producer_node)
        g0 == IF out = <<>> THEN new_cell(g, NamedFile(target_name)) ELSE g
        producer_output == IF out = <<>> THEN Len(g0.cells) ELSE out[1].output
        g1 == update_edge(g0, producer_node, dependent_node,
                          BuildEdge(producer_output, input_slot))
        se == sink_edges(g1, OutEdges(g1, producer_node), target_name, <<>>)
    IN  redirect(se.g, se.found, producer_node, dependent_node, input_slot)

\* A variant that wires the dependent node to the Source node before it
\* reports the undeclared target.
add_dependency_wired_first(g, target_name, dependent_node, input_slot) ==
    IF target_name \notin DOMAIN g.target_nodes
    THEN [g |-> wire_dependency(g, g.source, target_name, dependent_node, input_slot),
          result |-> "InvalidRecipe"]
    ELSE [g |-> wire_dependency(g, g.target_nodes[target_name], target_name,
                                dependent_node, input_slot),
          result |-> "Ok"]

add_dependency(g, target_name, dependent_node, input_slot) ==
    IF target_name \notin DOMAIN g.target_nodes
    THEN [g |-> g, result |-> "InvalidRecipe"]
    ELSE [g |-> wire_dependency(g, g.target_nodes[target_name], target_name,
                                dependent_node, input_slot),
          result |-> "Ok"]

(***************************************************************************)
(* The inputs of the graph construction.                                   *)
(***************************************************************************)
SourceNames == {"s1", "s2"}

\* The k-th add_path call declares target TargetNames[k]: a recipe is a map,
\* so every target is declared once.
TargetNames == <<"T1", "T2", "T3", "T4", "T5">>

Ops == {Fontc, FixA, FixB, Compress, BuildStat}

Steps == [file : {None}, op : Ops]

\* The operation lists of the add_path-only specification.
\* The number of operations in the add_path calls cs.
RECURSIVE SumLen(_)
SumLen(cs) ==
    IF cs = <<>> THEN 0
    ELSE (IF cs[1].call = "add_path" THEN Len(cs[1].operations) ELSE 0)
         + SumLen(Tail(cs))

\* The operation lists of a call made after calls with done operations in all.
OpLists(done) == SeqsUpTo(Steps, MaxSteps - done)

Step(op) == [file |-> None, op |-> op]

\* The operation lists of the specification with add_dependency.
DepOpLists == {<<Step(FixA)>>, <<Step(BuildStat)>>, <<Step(Compress)>>,
               <<Step(FixA), Step(Fontc)>>}

IsAddPath(c) == c.call = "add_path"

IsAddDependency(c) == c.call = "add_dependency"

NumPaths == Len(SelectSeq(calls, IsAddPath))

NumDeps == Len(SelectSeq(calls, IsAddDependency))

\* The operation nodes add_path has returned so far.
StepNodes == UNION {Range(calls[i].op_nodes) : i \in 1..Len(calls)}

\* The targets declared so far, and the next one.
Declared == {TargetNames[i] : i \in 1..NumPaths}

(***************************************************************************)
(* Deserialize for Config.  A document is the mapping of a configuration   *)
(* file: its recipe, recipeProvider and sources keys, each absent (<<>>)   *)
(* or given (<<value>>).  A recipe maps target names to lists of steps.    *)
(***************************************************************************)
ConfigTargets == {"t1", "t2"}

StepLists == {<<"source">>, <<"source", "fix">>}

RecipeMaps == UNION {[T -> StepLists] : T \in SUBSET ConfigTargets}

\* RecipeProviderTag, with rename_all = "lowercase"
ProviderTags == {"googlefonts", "noto"}

\* What a document can give as recipeProvider: a tag, or some other string.
TagValues == ProviderTags \cup {"fontbakery"}

\* What a document can give as sources: a list of strings, or one string.
SourcesValues == {"list", "string"}

Documents ==
    [recipe : {<<>>} \cup {<<m>> : m \in RecipeMaps},
     recipeProvider : {<<>>} \cup {<<t>> : t \in TagValues},
     sources : {<<>>} \cup {<<v>> : v \in SourcesValues}]

NoDocument == [recipe |-> <<>>, recipeProvider |-> <<>>, sources |-> <<>>]

NotParsed == [result |-> "none", recipe |-> EmptyMap, provider |-> <<>>]

\* ConfigHelper::deserialize: recipe defaults to the empty map, an unknown
\* recipeProvider is an error, the other keys are kept in raw_config.
ConfigHelper(doc) ==
    IF doc.recipeProvider # <<>> /\ doc.recipeProvider[1] \notin ProviderTags
    THEN [result |-> "Err"]
    ELSE [result |-> "Ok",
          recipe |-> IF doc.recipe = <<>> THEN EmptyMap ELSE doc.recipe[1],
          recipe_provider_tag |-> doc.recipeProvider,
          raw_config |-> [sources |-> doc.sources]]

\* RecipeProviderTag::default
default_tag == "googlefonts"

\* parse_provider_options: GoogleFontsOptions has a default for sources,
\* NotoFontsOptions requires it; both want a list.
parse_provider_options(tag, raw_config) ==
    IF raw_config.sources = <<"list">> \/ (tag = "googlefonts" /\ raw_config.sources = <<>>)
    THEN [result |-> "Ok", provider |-> <<tag>>]
    ELSE [result |-> "InvalidRecipe", provider |-> <<>>]

\* A variant that creates the provider whether or not a recipe is given.
provider_for_always(helper) ==
    parse_provider_options(IF helper.recipe_provider_tag = <<>> THEN default_tag
                           ELSE helper.recipe_provider_tag[1],
                           helper.raw_config)

\* The provider of the Config: none when there is an explicit recipe.
provider_for(helper) ==
    IF DOMAIN helper.recipe # {}
    THEN [result |-> "Ok", provider |-> <<>>]
    ELSE parse_provider_options(IF helper.recipe_provider_tag = <<>> THEN default_tag
                                ELSE helper.recipe_provider_tag[1],
                                helper.raw_config)

\* Deserialize for Config
deserialize(doc) ==
    LET helper == ConfigHelper(doc)
    IN  IF helper.result # "Ok"
        THEN [result |-> "Err", recipe |-> EmptyMap, provider |-> <<>>]
        ELSE LET p == provider_for(helper)
             IN  IF p.result # "Ok"
                 THEN [result |-> "Err", recipe |-> EmptyMap, provider |-> <<>>]
                 ELSE [result |-> "Ok", recipe |-> helper.recipe, provider |-> p.provider]

\* Config::to_graph has not been called.
NoToGraph ==
    [pc |-> "none", recipe |-> EmptyMap, todo |-> {}, dependencies |-> <<>>,
     wired |-> 0, result |-> "none"]

\* No configuration file has been read.
InitCfgVars ==
    /\ document = NoDocument
    /\ config = NotParsed
    /\ toGraph = NoToGraph

\* The orchestrator has not been started.
InitRunVars ==
    /\ job_limit = 0
    /\ runPc = "idle"
    /\ runResult = "none"
    /\ snapshot = {}
    /\ futures = <<>>
    /\ pc = <<>>
    /\ cursor = <<>>
    /\ result = <<>>
    /\ status = <<>>
    /\ execCount = <<>>
    /\ permits = 0
    /\ console = 0
    /\ consoleWait = {}
    /\ log = <<>>

\* No artifact has been touched.
InitArtVars ==
    /\ store = EmptyStore
    /\ held = <<>>
    /\ holder = <<>>
    /\ acalls = <<>>

InitGraph ==
    /\ graph = NewGraph
    /\ before = NewGraph
    /\ calls = <<>>
    /\ InitRunVars
    /\ InitCfgVars
    /\ InitArtVars

AddPath(source_filename, operations, limit) ==
    /\ NumPaths < limit
    /\ LET sink_filename == TargetNames[NumPaths + 1]
           r == add_path(graph, source_filename, operations, sink_filename)
       IN  /\ graph' = r.g
           /\ before' = graph
           /\ calls' = Append(calls, [call |-> "add_path",
                                      source_filename |-> source_filename,
                                      operations |-> operations,
                                      sink_filename |-> sink_filename,
                                      op_nodes |-> r.op_nodes])
    /\ UNCHANGED <<cfgVars, runVars, artVars>>

AddDependency(target_name, dependent_node, input_slot) ==
    /\ NumDeps < MaxDeps
    /\ dependent_node \in StepNodes
    /\ LET r == add_dependency(graph, target_name, dependent_node, input_slot)
       IN  /\ graph' = r.g
           /\ before' = graph
           /\ calls' = Append(calls, [call |-> "add_dependency",
                                      target_name |-> target_name,
                                      dependent_node |-> dependent_node,
                                      input_slot |-> input_slot,
                                      result |-> r.result,
                                      op_nodes |-> <<>>])
    /\ UNCHANGED <<cfgVars, runVars, artVars>>

\* Graph construction by add_path alone.
\* The source names are interchangeable: the first path is built from "s1".
NextPaths ==
    \E s \in (IF calls = <<>> THEN {"s1"} ELSE SourceNames),
       ops \in OpLists(SumLen(calls)) : AddPath(s, ops, MaxPaths)

SpecPaths == InitGraph /\ [][NextPaths]_vars

\* Graph construction by add_path and add_dependency, in any order.
NextGraph ==
    \/ \E s \in SourceNames, ops \in DepOpLists : AddPath(s, ops, MaxDepPaths)
    \/ \E t \in Declared \cup {TargetNames[NumPaths + 1]},
          d \in NodeIds(graph), k \in 0..MaxSlot : AddDependency(t, d, k)

SpecGraph == InitGraph /\ [][NextGraph]_vars

(***************************************************************************)
(* Properties of the graph construction.                                   *)
(***************************************************************************)
\* The nodes reachable from the nodes of S along the edges of g.
RECURSIVE ReachFrom(_, _)
ReachFrom(g, S) ==
    LET T == S \cup UNION {{e.target : e \in {x \in Range(g.edges) : x.source = n}} : n \in S}
    IN  IF T = S THEN S ELSE ReachFrom(g, T)

\* n can reach m along at least one edge.
Reaches(g, n, m) ==
    m \in ReachFrom(g, {e.target : e \in {x \in Range(g.edges) : x.source = n}})

Acyclic(g) == \A n \in 1..Len(g.nodes) : ~Reaches(g, n, n)

IsConverter(op) == op.shortname \in {"ToBytes", "ToTempFile"}

IsSentinel(op) == op.shortname \in {"Source", "Sink"}

\* The artifacts (cell references) on the outgoing edges of n.
OutArtifacts(g, n) == {e.output : e \in Range(OutEdges(g, n))}

Children(g, n) == {e.target : e \in Range(OutEdges(g, n))}

Parents(g, n) == {e.source : e \in Range(InEdges(g, n))}

\* The nodes that a successful add_dependency call got as dependent_node.
DependentNodes ==
    {calls[i].dependent_node : i \in {j \in 1..Len(calls) :
        IsAddDependency(calls[j]) /\ calls[j].result = "Ok"}}

Broadcast(g, n) == Cardinality(OutArtifacts(g, n)) <= 1

\* C6 as stated: after any sequence of add_path and add_dependency calls all
\* outgoing edges of a node other than Source and the Sinks carry the same
\* Artifact reference.
C6_Original ==
    \A n \in NodeIds(graph) : ~IsSentinel(graph.nodes[n]) => Broadcast(graph, n)

(***************************************************************************)
(* Two add_path calls, one right after the other.                          *)
(***************************************************************************)
NoOverride(ops) == \A j \in 1..Len(ops) : ops[j].file = None

TwoPaths(i) ==
    /\ i + 1 <= Len(calls)
    /\ IsAddPath(calls[i]) /\ IsAddPath(calls[i + 1])
    /\ NoOverride(calls[i].operations) /\ NoOverride(calls[i + 1].operations)

\* The case of C7: same source, lists [A, B] and [A, C] with A, B, C three
\* different operations.
FanOutCase(i) ==
    /\ TwoPaths(i)
    /\ calls[i].source_filename = calls[i + 1].source_filename
    /\ Len(calls[i].operations) = 2 /\ Len(calls[i + 1].operations) = 2
    /\ LET A == calls[i].operations[1].op
           A2 == calls[i + 1].operations[1].op
           B == calls[i].operations[2].op
           C == calls[i + 1].operations[2].op
       IN  OpEq(A, A2) /\ ~OpEq(B, C) /\ ~OpEq(A, B) /\ ~OpEq(A, C)

NodesOf(g, op) == {n \in NodeIds(g) : OpEq(g.nodes[n], op)}

\* The kind flowing out of the first operation A of a path.
KindAfterFirst(A) ==
    LET cv == IF need_conversion(first_kind(A.input_kinds), "Path")
              THEN conv("Path", first_kind(A.input_kinds)) ELSE <<>>
        k == IF cv = <<>> THEN "Path" ELSE cv[1].kind
        o == first_kind(A.output_kinds)
    IN  IF o # "Any" THEN o ELSE k

\* B needs an inserted converter when appended after a node of kind k.
ConvFor(k, B) ==
    IF need_conversion(first_kind(B.input_kinds), k)
    THEN conv(k, first_kind(B.input_kinds)) ELSE <<>>

DistinctSourcesCase(i) ==
    /\ TwoPaths(i)
    /\ calls[i].source_filename # calls[i + 1].source_filename
    /\ Len(calls[i].operations) = 1 /\ Len(calls[i + 1].operations) = 1
    /\ OpEq(calls[i].operations[1].op, calls[i + 1].operations[1].op)

\* C8: two add_path calls with different source names and the same
\* one-operation list [A] give two distinct A nodes: the second call does not
\* reuse the node of the first.
C8_DistinctSources ==
    \A i \in 1..Len(calls) : DistinctSourcesCase(i) =>
        /\ calls[i].op_nodes[1] # calls[i + 1].op_nodes[1]
        /\ Cardinality(NodesOf(graph, calls[i].operations[1].op)) >= 2

C8_Witness == \E i \in 1..Len(calls) : DistinctSourcesCase(i)

\* The converter that add_path has to put before operation j of a call, by
\* the declared kinds: a Bytes consumer after a Path producer (or after the
\* Source), or a Path consumer after a Bytes producer.
WantedConv(c, j) ==
    LET prevKind == IF j = 1 THEN "Path"
                    ELSE first_kind(c.operations[j - 1].op.output_kinds)
        want == first_kind(c.operations[j].op.input_kinds)
    IN  CASE prevKind = "Path" /\ want = "Bytes" -> <<FileToBytes>>
          [] prevKind = "Bytes" /\ want = "Path" -> <<BytesToTempFile>>
          [] OTHER -> <<>>

PrevNode(c, j) == IF j = 1 THEN graph.source ELSE c.op_nodes[j - 1]

\* C9: an operation that wants Bytes appended after a Path-producing node (or
\* one that wants Path after a Bytes-producing node) is attached through
\* exactly one converter node of the matching type; the node before it feeds
\* a single converter of that type, which all such consumers share.
C9_ConverterShared ==
    \A i \in 1..Len(calls) : IsAddPath(calls[i]) =>
        \A j \in 1..Len(calls[i].operations) :
            WantedConv(calls[i], j) # <<>> =>
                LET cvop == WantedConv(calls[i], j)[1]
                    prev == PrevNode(calls[i], j)
                    m == calls[i].op_nodes[j]
                    V == {v \in Children(graph, prev) :
                             graph.nodes[v].shortname = cvop.shortname}
                IN  /\ Cardinality(V) = 1
                    /\ Parents(graph, m) = V
                    /\ \A v \in V : graph.nodes[v] = cvop /\ Parents(graph, v) = {prev}
                    /\ Cardinality({v \in NodeIds(graph) :
                                      /\ graph.nodes[v].shortname = cvop.shortname
                                      /\ prev \in Parents(graph, v)}) = 1

\* A later add_path has attached a second consumer to an existing converter.
C9_Witness ==
    \E i, k \in 1..Len(calls) :
        /\ i < k /\ IsAddPath(calls[i]) /\ IsAddPath(calls[k])
        /\ \E j \in 1..Len(calls[i].operations), l \in 1..Len(calls[k].operations) :
              /\ WantedConv(calls[i], j) # <<>>
              /\ WantedConv(calls[k], l) = WantedConv(calls[i], j)
              /\ PrevNode(calls[i], j) = PrevNode(calls[k], l)
              /\ calls[i].op_nodes[j] # calls[k].op_nodes[l]

(***************************************************************************)
(* add_dependency.                                                         *)
(***************************************************************************)
LastCall == calls[Len(calls)]

TargetIndex(t) == CHOOSE i \in 1..Len(TargetNames) : TargetNames[i] = t

\* The Sink node that add_path created for target t.
SinkOf(g, t) == g.sinks[TargetIndex(t)]

\* The last call was add_dependency(T, d, k), it succeeded, d is not the
\* recorded producer of T and the graph is still acyclic.
RerouteCase ==
    /\ calls # <<>>
    /\ IsAddDependency(LastCall)
    /\ LastCall.result = "Ok"
    /\ LastCall.dependent_node # before.target_nodes[LastCall.target_name]
    /\ Acyclic(graph)

\* C10 as stated: after add_dependency(T, d, k) the Sink of T has exactly one
\* incoming edge, from d, with slot k and the NamedFile(T) Artifact it had
\* before; the producer of T has no edge to that Sink any more and has an
\* edge to d with slot k carrying that same Artifact.
C10_Rerouted ==
    RerouteCase =>
        LET T == LastCall.target_name
            d == LastCall.dependent_node
            k == LastCall.input_slot
            p == before.target_nodes[T]
            sink == SinkOf(before, T)
            old == InEdges(before, sink)
            new == InEdges(graph, sink)
            pd == find_edge(graph, p, d)
        IN  /\ Len(new) = 1
            /\ new[1].source = d
            /\ new[1].output_slot = k
            /\ new[1].output = old[1].output
            /\ graph.cells[new[1].output] = NamedFile(T)
            /\ find_edge(graph, p, sink) = 0
            /\ pd # 0
            /\ graph.edges[pd].output_slot = k
            /\ graph.edges[pd].output = new[1].output

(***************************************************************************)
(* The orchestrator (buildsystem/orchestrator.rs).  run works on a graph   *)
(* that is immutable during the build.  Every node has at most one shared  *)
(* build future (futures); polling it for the first time spawns the node   *)
(* task, whose position is pc[n]:                                          *)
(*   idle     no task spawned                                              *)
(*   spawned  in the loop over the incoming edges (cursor[n] edges done)   *)
(*   await    in try_join_all over the input futures                       *)
(*   sem      in run_op, waiting for a permit of the command semaphore     *)
(*   exec     inside Operation::execute, holding a permit                  *)
(*   console  execute returned, waiting for the console mutex              *)
(*   finish   holding the console mutex, about to report the exit status   *)
(*   done     the task has returned result[n]                              *)
(***************************************************************************)
\* Marks a future inserted by run itself rather than by a node task.
ByRun == -1

SetMin(S) == CHOOSE x \in S : \A y \in S : x <= y

\* The recipes whose graphs are handed to run: the inputs of the add_path and
\* add_dependency calls that build them.  Node 1 is Source; a path of one step
\* makes its node and its Sink, in that order.
PathCall(s, ops) ==
    [call |-> "add_path", source_filename |-> s, operations |-> ops]

DepCall(t, d, k) ==
    [call |-> "add_dependency", target_name |-> t, dependent_node |-> d,
     input_slot |-> k]

\* One converter, one operation, one target.
RChain == <<PathCall("s1", <<Step(Compress)>>)>>

\* Two independent targets; then the second operation takes the first target
\* as its second input.
RStat == <<PathCall("s1", <<Step(FixA)>>),
           PathCall("s2", <<Step(BuildStat)>>),
           DepCall("T1", 4, 1)>>

\* A target that depends on a later step of its own path: a cycle.
RLoop == <<PathCall("s2", <<Step(FixA), Step(Fontc)>>),
           DepCall("T1", 2, 1)>>

\* Three targets sharing their first operation, which is itself a target.
RWide == <<PathCall("s1", <<Step(FixA), Step(Fontc)>>),
           PathCall("s1", <<Step(FixA), Step(FixB)>>),
           PathCall("s1", <<Step(FixA)>>)>>

\* Two targets sharing their first operation, one of which needs its
\* output converted to bytes.
RConv == <<PathCall("s1", <<Step(FixA), Step(FixB)>>),
           PathCall("s1", <<Step(FixA), Step(Compress)>>)>>

Recipes == {RChain, RStat, RLoop, RWide, RConv}

\* The calls made so far are the first calls of recipe r, which has more.
Follows(r) ==
    /\ Len(calls) < Len(r)
    /\ \A i \in 1..Len(calls) :
          /\ calls[i].call = r[i].call
          /\ IF IsAddPath(r[i])
             THEN /\ calls[i].source_filename = r[i].source_filename
                  /\ calls[i].operations = r[i].operations
             ELSE /\ calls[i].target_name = r[i].target_name
                  /\ calls[i].dependent_node = r[i].dependent_node
                  /\ calls[i].input_slot = r[i].input_slot

\* The ApplicationError values an execute returns.
ErrorKinds == {"WrongInputs", "WrongOutputs", "Other"}

\* What Operation::execute can return: Ok with a zero exit status, Ok with a
\* non-zero exit status, or Err with an error value.  Source and Sink always
\* succeed; the converters never report an exit status of their own.
ExecOutcomes(op) ==
    IF IsSentinel(op) THEN {"success"}
    ELSE IF IsConverter(op) THEN {"success"} \cup ErrorKinds
    ELSE {"success", "nonzero"} \cup ErrorKinds

\* From<Box<dyn Error>> for ApplicationError
FromBoxedError(e) == "Other"

IsErr(r) == r \notin {"none", "Ok"}

\* The sources of the incoming edges of n, in iteration order.
Inputs(n) == [i \in 1..Len(InEdges(graph, n)) |-> InEdges(graph, n)[i].source]

\* A map whose later inserts replace the future that is registered.
trigger_build_replacing(fs, creator, build) == [fs EXCEPT ![build] = creator]

\* build_futures.entry(build).or_insert_with(..): only the first insert wins.
trigger_build(fs, creator, build) ==
    IF fs[build] = 0 THEN [fs EXCEPT ![build] = creator] ELSE fs

\* A build future that is not shared: every poll by a consumer spawns the task
\* again.
Poll_Unshared(p, S) ==
    [n \in DOMAIN p |-> IF n \in S THEN "spawned" ELSE p[n]]

\* Polling the shared futures of the nodes of S: a future that has never been
\* polled runs spawn_build, which spawns the node task.
Poll(p, S) ==
    [n \in DOMAIN p |-> IF n \in S /\ p[n] = "idle" THEN "spawned" ELSE p[n]]

\* join_all in place of try_join_all: the inputs have completed, failed or not.
inputs_completed(n) == \A i \in 1..Len(Inputs(n)) : result[Inputs(n)[i]] # "none"

\* try_join_all over the inputs of n has every result and none is an error.
inputs_ready(n) == \A i \in 1..Len(Inputs(n)) : result[Inputs(n)[i]] = "Ok"

\* The positions of the inputs of n whose future completed with an error.
FailedInputs(n) == {i \in 1..Len(Inputs(n)) : IsErr(result[Inputs(n)[i]])}

\* A semaphore that hands out permits it does not have.
available_always(p) == TRUE

\* Semaphore::acquire succeeds when a permit is left.
available(p) == p > 0

\* A variant that gives the permit back twice.
release_doubled(p) == p + 2

\* The permit is leaked instead of dropped.
release_leaked(p) == p

\* drop(permit): the permit goes back to the semaphore.
release(p) == p + 1

\* The exit status is not looked at.
exit_ignored(st) == "Ok"

\* The result of run_op once execute has returned Ok(output).
exit_result(st) == IF st = "nonzero" THEN "Build" ELSE "Ok"

(***************************************************************************)
(* What spawn_build hands to execute, and what execute does with it.       *)
(***************************************************************************)
\* input_files: one Artifact per incoming edge, pushed in the order in which
\* the incoming edges are iterated.
input_files(g, n) == [i \in 1..Len(InEdges(g, n)) |-> InEdges(g, n)[i].output]

\* max_slot: the largest output_slot among the outgoing edges, 0 if none.
max_slot(out) == IF out = <<>> THEN 0 ELSE SetMax({out[i].output_slot : i \in 1..Len(out)})

\* The slot vector before it is flattened: slot k holds the artifact of the
\* first outgoing edge, in iteration order, that is tagged k.  An Option is
\* a sequence of 0 or 1 elements.
slot_vector(out) ==
    [k \in 1..(max_slot(out) + 1) |->
        LET first == FindFirst(out, LAMBDA e : e.output_slot = k - 1)
        IN  IF first = <<>> THEN <<>> ELSE <<first[1].output>>]

\* Iterator::flatten over the slot vector: the empty slots are dropped.
RECURSIVE flatten(_)
flatten(v) == IF v = <<>> THEN <<>> ELSE v[1] \o flatten(Tail(v))

\* output_files: the vector passed to execute as outputs.
output_files(g, n) == flatten(slot_vector(OutEdges(g, n)))

\* The first n elements of a sequence, or all of it if it is shorter.
Take(s, n) == SubSeq(s, 1, IF n < Len(s) THEN n ELSE Len(s))

\* The inputs execute reads (to_bytes, or the file named by to_filename).
\* Source and Sink touch nothing; BuildStat reads every input; every other
\* operation reads its first input.
read_inputs(op, inputs) ==
    IF IsSentinel(op) THEN <<>>
    ELSE IF op.shortname = "BuildStat" THEN inputs
    ELSE Take(inputs, 1)

\* The outputs execute writes (set_bytes, set_contents, or the file named by
\* to_filename).  BuildStat writes one output per input; every other
\* operation writes its first output.
written_outputs(op, inputs, outputs) ==
    IF IsSentinel(op) THEN <<>>
    ELSE IF op.shortname = "BuildStat"
    THEN (IF Len(inputs) = Len(outputs) THEN outputs ELSE <<>>)
    ELSE Take(outputs, 1)

\* The files a run starts with: the source files, and the temporary files
\* of the cells materialized while the graph was built.
RunStore(g) ==
    [cells |-> g.cells,
     disk |-> [p \in SourceNames \cup {g.cells[c].file : c \in {d \in DOMAIN g.cells :
                        g.cells[d].kind = "TemporaryFile" /\ g.cells[d].file # None}}
               |-> IF p \in SourceNames THEN "src" ELSE ""],
     ntemp |-> g.ntemp]

\* The to_filename calls execute makes on entry, before the work that takes
\* time: Fix asks for the paths of its first input and first output, Fontc
\* for the path of its first input.  Returns the store and the paths.
begin_execute(st, op, inputs, outputs) ==
    IF op.shortname = "Fix" /\ inputs # <<>> /\ outputs # <<>>
    THEN LET r1 == cell_to_filename(st, inputs[1], "ok")
             r2 == cell_to_filename(r1.st, outputs[1], "ok")
         IN  [st |-> r2.st, paths |-> <<r1.value, r2.value>>]
    ELSE IF op.shortname = "Fontc" /\ inputs # <<>>
    THEN LET r1 == cell_to_filename(st, inputs[1], "ok")
         IN  [st |-> r1.st, paths |-> <<r1.value>>]
    ELSE [st |-> st, paths |-> <<>>]

\* BuildStat: outputs[index].set_contents(..) for every index.
RECURSIVE set_all_contents(_, _, _)
set_all_contents(st, outputs, bytes) ==
    IF outputs = <<>> THEN st
    ELSE set_all_contents(cell_set_contents(st, outputs[1], bytes, "ok").st,
                          Tail(outputs), bytes)

\* FileToBytes::execute: input.to_bytes(), then set_bytes on the output.
convert_to_bytes(st, input, output) ==
    LET b == cell_to_bytes(st, input)
    IN  [ok |-> b.result = "Ok",
         st |-> IF b.result = "Ok" THEN cell_set_bytes(st, output, b.value) ELSE st]

\* The rest of a successful execute: ok tells whether the operation could
\* read what it needs, st is the store after its writes.  An operation
\* writes its identifier as its product; the converters copy the bytes.
end_execute(st, op, inputs, outputs, paths) ==
    IF IsSentinel(op) THEN [ok |-> TRUE, st |-> st]
    ELSE IF op.shortname = "BuildStat"
    THEN [ok |-> /\ Len(inputs) = Len(outputs)
                 /\ \A i \in 1..Len(inputs) : cell_to_bytes(st, inputs[i]).result = "Ok",
          st |-> set_all_contents(st, outputs, op.identifier)]
    ELSE IF inputs = <<>> \/ outputs = <<>> THEN [ok |-> FALSE, st |-> st]
    ELSE IF op.shortname = "ToBytes" THEN convert_to_bytes(st, inputs[1], outputs[1])
    ELSE IF op.shortname = "ToTempFile"
    THEN LET b == cell_to_bytes(st, inputs[1])
             f == cell_to_filename(st, outputs[1], "ok")
         IN  [ok |-> b.result = "Ok",
              st |-> IF b.result = "Ok" THEN fs_write(f.st, f.value, b.value) ELSE st]
    ELSE IF op.shortname = "Fix"
    THEN [ok |-> paths[1] \in DOMAIN st.disk,
          st |-> fs_write(st, paths[2], op.identifier)]
    ELSE IF op.shortname = "Fontc"
    THEN [ok |-> paths[1] \in DOMAIN st.disk,
          st |-> cell_set_contents(st, outputs[1], op.identifier, "ok").st]
    ELSE \* Compress
         [ok |-> cell_to_bytes(st, inputs[1]).result = "Ok",
          st |-> cell_set_contents(st, outputs[1], op.identifier, "ok").st]

\* The next call of a recipe, made before run takes the graph.
RecipeStep ==
    /\ runPc = "idle"
    /\ \E r \in Recipes :
          /\ Follows(r)
          /\ LET c == r[Len(calls) + 1]
             IN  IF IsAddPath(c)
                 THEN AddPath(c.source_filename, c.operations, MaxDepPaths)
                 ELSE AddDependency(c.target_name, c.dependent_node, c.input_slot)

\* run: Context::new(job_limit, graph).
StartRun(limit) ==
    /\ runPc = "idle"
    /\ job_limit' = limit
    /\ runPc' = "trigger"
    /\ futures' = [n \in NodeIds(graph) |-> 0]
    /\ pc' = [n \in NodeIds(graph) |-> "idle"]
    /\ cursor' = [n \in NodeIds(graph) |-> 0]
    /\ result' = [n \in NodeIds(graph) |-> "none"]
    /\ status' = [n \in NodeIds(graph) |-> "none"]
    /\ execCount' = [n \in NodeIds(graph) |-> 0]
    /\ permits' = limit
    /\ store' = RunStore(graph)
    /\ held' = [n \in NodeIds(graph) |-> <<>>]
    /\ UNCHANGED <<cfgVars, buildVars, holder, acalls, runResult, snapshot, console, consoleWait,
                   log>>

\* run: the loop over final_targets, one trigger_build per target (HashSet
\* order).
RunTrigger(target) ==
    /\ runPc = "trigger"
    /\ target \in Externals(graph)
    /\ futures[target] = 0
    /\ futures' = trigger_build(futures, ByRun, target)
    /\ UNCHANGED <<cfgVars, buildVars, artVars, job_limit, runPc, runResult, snapshot, pc, cursor,
                   result, status, execCount, permits, console, consoleWait, log>>

\* run: collect the futures registered so far and poll try_join_all over them
\* for the first time, which spawns their tasks.
RunCollect ==
    /\ runPc = "trigger"
    /\ \A t \in Externals(graph) : futures[t] # 0
    /\ snapshot' = {n \in NodeIds(graph) : futures[n] # 0}
    /\ pc' = Poll(pc, snapshot')
    /\ runPc' = "join"
    /\ UNCHANGED <<cfgVars, buildVars, artVars, job_limit, runResult, futures, cursor, result,
                   status, execCount, permits, console, consoleWait, log>>

\* A variant of try_join_all that hands out an error only once no execute
\* is under way any more.
observed_errors_settled(S, res, p) ==
    IF \E m \in DOMAIN p : p[m] = "exec" THEN {}
    ELSE {n \in S : IsErr(res[n])}

\* try_join_all: the futures of S that are seen to have completed with an
\* error, whatever the other tasks are doing.
observed_errors(S, res, p) == {n \in S : IsErr(res[n])}

\* A join that is Ok as soon as one of the futures of a non-empty S is Ok.
any_ok(S, res) == S = {} \/ \E n \in S : res[n] = "Ok"

\* try_join_all: every future of S has completed with Ok.
all_ok(S, res) == \A n \in S : res[n] = "Ok"

\* run: try_join_all completes with the first error it sees, or with Ok once
\* every collected future is Ok.
RunReturn ==
    /\ runPc = "join"
    /\ \/ /\ all_ok(snapshot, result)
          /\ runResult' = "Ok"
       \/ \E n \in observed_errors(snapshot, result, pc) : runResult' = result[n]
    /\ runPc' = "returned"
    /\ UNCHANGED <<cfgVars, buildVars, artVars, job_limit, snapshot, futures, pc, cursor, result,
                   status, execCount, permits, console, consoleWait, log>>

\* spawn_build: one turn of the loop over in_edges, build_input on the source.
BuildInput(n) ==
    /\ pc[n] = "spawned"
    /\ cursor[n] < Len(Inputs(n))
    /\ futures' = trigger_build(futures, n, Inputs(n)[cursor[n] + 1])
    /\ cursor' = [cursor EXCEPT ![n] = @ + 1]
    /\ UNCHANGED <<cfgVars, buildVars, artVars, job_limit, runPc, runResult, snapshot, pc, result,
                   status, execCount, permits, console, consoleWait, log>>

\* spawn_build: the first poll of try_join_all(futures).  The inputs are polled
\* in order, which spawns the tasks not yet spawned; the poll stops at the
\* first input that has already failed.
JoinInputs(n) ==
    /\ pc[n] = "spawned"
    /\ cursor[n] = Len(Inputs(n))
    /\ LET ins == Inputs(n)
           bad == FailedInputs(n)
           stop == IF bad = {} THEN Len(ins) ELSE SetMin(bad)
           polled == {ins[i] : i \in 1..stop}
       IN  /\ pc' = [Poll(pc, polled) EXCEPT
                        ![n] = IF bad = {} THEN "await" ELSE "done"]
           /\ result' = IF bad = {} THEN result
                        ELSE [result EXCEPT ![n] = result[ins[stop]]]
    /\ UNCHANGED <<cfgVars, buildVars, artVars, job_limit, runPc, runResult, snapshot, futures,
                   cursor, status, execCount, permits, console, consoleWait, log>>

\* spawn_build: try_join_all(futures).await? completes. With every input Ok the
\* task goes on to run_op; with a failed input it returns that error.
AwaitInputs(n) ==
    /\ pc[n] = "await"
    /\ \/ /\ inputs_ready(n)
          /\ pc' = [pc EXCEPT ![n] = "sem"]
          /\ UNCHANGED result
       \/ /\ FailedInputs(n) # {}
          /\ pc' = [pc EXCEPT ![n] = "done"]
          /\ result' = [result EXCEPT
                           ![n] = result[Inputs(n)[SetMin(FailedInputs(n))]]]
    /\ UNCHANGED <<cfgVars, buildVars, artVars, job_limit, runPc, runResult, snapshot, futures,
                   cursor, status, execCount, permits, console, consoleWait, log>>

\* run_with_semaphore: a permit is acquired and execute is invoked; execute
\* makes its to_filename calls and keeps the paths while it works.
Acquire(n) ==
    /\ pc[n] = "sem"
    /\ available(permits)
    /\ permits' = permits - 1
    /\ pc' = [pc EXCEPT ![n] = "exec"]
    /\ execCount' = [execCount EXCEPT ![n] = @ + 1]
    /\ LET b == begin_execute(store, graph.nodes[n], input_files(graph, n),
                              output_files(graph, n))
       IN  /\ store' = b.st
           /\ held' = [held EXCEPT ![n] = b.paths]
    /\ UNCHANGED <<cfgVars, buildVars, holder, acalls, job_limit, runPc, runResult, snapshot,
                   futures, cursor, result, status, console, consoleWait, log>>

\* run_op: no permit is left, so try_join! polls its second branch, which
\* takes the console mutex or queues for it.
WaitPermit(n) ==
    /\ pc[n] = "sem"
    /\ ~available(permits)
    /\ console # n
    /\ n \notin consoleWait
    /\ IF console = 0
       THEN console' = n /\ UNCHANGED consoleWait
       ELSE consoleWait' = consoleWait \cup {n} /\ UNCHANGED console
    /\ UNCHANGED <<cfgVars, buildVars, artVars, job_limit, runPc, runResult, snapshot, futures, pc,
                   cursor, result, status, execCount, permits, log>>

\* The console mutex is handed to a task queued for it.
LockConsole(n) ==
    /\ n \in consoleWait
    /\ console = 0
    /\ console' = n
    /\ consoleWait' = consoleWait \ {n}
    /\ pc' = [pc EXCEPT ![n] = IF @ = "console" THEN "finish" ELSE @]
    /\ UNCHANGED <<cfgVars, buildVars, artVars, job_limit, runPc, runResult, snapshot, futures,
                   cursor, result, status, execCount, permits, log>>

\* execute returns and the permit is dropped.  It returns success only if it
\* could read its inputs, and has then written its outputs; a failed execute
\* has written nothing.  An Err ends run_op at once (the
\* console branch is dropped with it); otherwise the task goes for the console
\* mutex unless it holds it already.
Execute(n, outcome) ==
    /\ pc[n] = "exec"
    /\ outcome \in ExecOutcomes(graph.nodes[n])
    /\ LET e == end_execute(store, graph.nodes[n], input_files(graph, n),
                            output_files(graph, n), held[n])
       IN  IF outcome = "success"
           THEN e.ok /\ store' = e.st
           ELSE store' = store
    /\ held' = [held EXCEPT ![n] = <<>>]
    /\ status' = [status EXCEPT ![n] = outcome]
    /\ permits' = release(permits)
    /\ IF outcome \in ErrorKinds
       THEN /\ result' = [result EXCEPT ![n] = FromBoxedError(outcome)]
            /\ pc' = [pc EXCEPT ![n] = "done"]
            /\ console' = IF console = n THEN 0 ELSE console
            /\ consoleWait' = consoleWait \ {n}
       ELSE /\ UNCHANGED result
            /\ IF console = n
               THEN pc' = [pc EXCEPT ![n] = "finish"] /\ UNCHANGED <<console, consoleWait>>
               ELSE IF n \in consoleWait
               THEN pc' = [pc EXCEPT ![n] = "console"] /\ UNCHANGED <<console, consoleWait>>
               ELSE IF console = 0
               THEN pc' = [pc EXCEPT ![n] = "finish"] /\ console' = n /\ UNCHANGED consoleWait
               ELSE /\ pc' = [pc EXCEPT ![n] = "console"]
                    /\ consoleWait' = consoleWait \cup {n}
                    /\ UNCHANGED console
    /\ UNCHANGED <<cfgVars, buildVars, holder, acalls, job_limit, runPc, runResult, snapshot,
                   futures, cursor, execCount, log>>

\* run_op, holding the console: a non-zero exit status writes the captured
\* output and returns the Build error; the console guard is dropped.
Finish(n) ==
    /\ pc[n] = "finish"
    /\ console = n
    /\ result' = [result EXCEPT ![n] = exit_result(status[n])]
    /\ log' = IF status[n] = "nonzero" THEN Append(log, n) ELSE log
    /\ console' = 0
    /\ pc' = [pc EXCEPT ![n] = "done"]
    /\ UNCHANGED <<cfgVars, buildVars, artVars, job_limit, runPc, runResult, snapshot, futures,
                   cursor, status, execCount, permits, consoleWait>>

\* The steps of run and of the node tasks.
NextTask ==
    \/ \E t \in DOMAIN futures : RunTrigger(t)
    \/ RunCollect
    \/ RunReturn
    \/ \E n \in DOMAIN pc : BuildInput(n)
    \/ \E n \in DOMAIN pc : JoinInputs(n)
    \/ \E n \in DOMAIN pc : AwaitInputs(n)
    \/ \E n \in DOMAIN pc : Acquire(n)
    \/ \E n \in DOMAIN pc : WaitPermit(n)
    \/ \E n \in DOMAIN pc : LockConsole(n)
    \/ \E n \in DOMAIN pc, o \in {"success", "nonzero"} \cup ErrorKinds : Execute(n, o)
    \/ \E n \in DOMAIN pc : Finish(n)

NextRun ==
    \/ RecipeStep
    \/ \E limit \in 0..MaxJobs : StartRun(limit)
    \/ NextTask

SpecRun == InitGraph /\ [][NextRun]_vars

\* The runtime keeps running every task that can make a step, and every
\* execute returns.
FairRun == InitGraph /\ [][NextRun]_vars /\ WF_vars(NextTask)

\* The runtime polls run when one of the futures it joins completes; an
\* execute may take for ever.
FairReturn == InitGraph /\ [][NextRun]_vars /\ WF_vars(RunReturn)

(***************************************************************************)
(* Properties of the orchestrator.                                         *)
(***************************************************************************)
Running == runPc # "idle"

\* n is reachable backwards from a node with no outgoing edges.
Reachable(n) == ReachFrom(graph, {n}) \cap Externals(graph) # {}

\* No node task is in flight.
Quiet == \A n \in DOMAIN pc : pc[n] \in {"idle", "done"}

Failed(n) == status[n] \in {"nonzero"} \cup ErrorKinds

\* C1 as stated: once run has returned and no task is left in flight, every
\* node reachable from a node without outgoing edges has been executed exactly
\* once and every other node not at all.
C1_Original ==
    (runPc = "returned" /\ Quiet) =>
        \A n \in DOMAIN pc : execCount[n] = IF Reachable(n) THEN 1 ELSE 0

\* C1: under every interleaving a node's execute is invoked at most once, and
\* never when the node is not reachable from a node without outgoing edges;
\* when run returns Ok every reachable node has been executed exactly once.
C1_AtMostOnce ==
    Running =>
        \A n \in DOMAIN pc :
            /\ execCount[n] <= 1
            /\ ~Reachable(n) => execCount[n] = 0
            /\ (runPc = "returned" /\ runResult = "Ok" /\ Reachable(n))
                  => execCount[n] = 1

\* A node with two consumers, both of which have triggered it, was executed
\* once in a run that returned Ok.
C1_Witness ==
    /\ runPc = "returned"
    /\ runResult = "Ok"
    /\ \E n \in DOMAIN pc :
          /\ Cardinality(Children(graph, n)) >= 2
          /\ Parents(graph, n) # {}
          /\ \A c \in Children(graph, n) : execCount[c] = 1
          /\ execCount[n] = 1

\* C2: a node's execute is invoked only after the execute of the source of each
\* of its incoming edges has returned Ok with exit status zero; a node with a
\* failed predecessor is never executed.
C2_DependencyOrder ==
    Running =>
        \A n \in DOMAIN pc :
            execCount[n] > 0 => \A p \in Parents(graph, n) : status[p] = "success"

\* A node is being executed after its predecessors succeeded, while a node
\* whose predecessor failed has finished without having been executed.
C2_Witness ==
    /\ Running
    /\ \E n \in DOMAIN pc :
          /\ Parents(graph, n) # {}
          /\ pc[n] = "exec"
    /\ \E m \in DOMAIN pc : \E p \in Parents(graph, m) :
          Failed(p) /\ execCount[m] = 0 /\ pc[m] = "done"

Executing == {n \in DOMAIN pc : pc[n] = "exec"}

\* C3: the number of operations inside execute never exceeds job_limit.
C3_SemaphoreBound == Running => Cardinality(Executing) <= job_limit

\* job_limit operations are inside execute and another one waits for a permit.
C3_Witness ==
    /\ Running
    /\ job_limit >= 2
    /\ Cardinality(Executing) = job_limit
    /\ \E n \in DOMAIN pc : pc[n] = "sem"

\* run has returned and no task is left waiting.
Returned == runPc = "returned" /\ Quiet

\* C4 as stated: on an acyclic graph run eventually returns, whatever
\* job_limit is.
C4_Original == (runPc = "trigger" /\ Acyclic(graph)) ~> Returned

\* C4: on an acyclic graph and with job_limit >= 1, run eventually returns and
\* no node task is left waiting on an input, the semaphore or the console.
C4_Terminates ==
    (runPc = "trigger" /\ Acyclic(graph) /\ job_limit >= 1) ~> Returned

\* run has returned on an acyclic graph, with a single permit, after at least
\* five nodes have been executed.
C4_Witness ==
    /\ Returned
    /\ Acyclic(graph)
    /\ job_limit = 1
    /\ Cardinality({n \in DOMAIN pc : execCount[n] = 1}) >= 5

\* C5: when run returns after some node's execute returned a non-zero exit
\* status and no execute returned an error, it returns the Build error.
C5_BuildError ==
    (/\ runPc = "returned"
     /\ \E n \in DOMAIN pc : status[n] = "nonzero"
     /\ \A n \in DOMAIN pc : status[n] \notin ErrorKinds)
        => runResult = "Build"

\* run returned the Build error after the failure of a node that two sinks
\* depend on; the output of the failed node was written.
C5_Witness ==
    /\ runPc = "returned"
    /\ runResult = "Build"
    /\ \A n \in DOMAIN pc : status[n] \notin ErrorKinds
    /\ \E n \in DOMAIN pc :
          /\ status[n] = "nonzero"
          /\ n \in Range(log)
          /\ Cardinality({t \in Externals(graph) : t \in ReachFrom(graph, {n})}) >= 2

(***************************************************************************)
(* The vectors spawn_build hands to execute.                               *)
(***************************************************************************)
\* The artifact a dependent node had as its only input before the
\* dependency was wired: the artifact of its primary path predecessor.
PrimaryInput(n) == InEdges(before, n)[1].output

\* The node n is the dependent node of the add_dependency call that finished
\* the recipe, and n is being executed.
DependentExecuting(n) ==
    /\ calls # <<>>
    /\ IsAddDependency(LastCall)
    /\ LastCall.result = "Ok"
    /\ LastCall.dependent_node = n
    /\ n \in DOMAIN pc
    /\ pc[n] = "exec"

\* C11 as stated: when a node d that received add_dependency(T, d, k) is
\* executed, its inputs vector holds the Artifact of T at index k and the
\* artifact of its primary path predecessor at index 0.
C11_DependencyInputs ==
    \A n \in NodeIds(graph) :
        DependentExecuting(n) =>
            LET ins == input_files(graph, n)
                k == LastCall.input_slot
            IN  /\ Len(ins) > k
                /\ graph.cells[ins[k + 1]] = NamedFile(LastCall.target_name)
                /\ ins[1] = PrimaryInput(n)

(***************************************************************************)
(* add_dependency on an undeclared target.                                 *)
(***************************************************************************)
\* The last call was add_dependency(T, d, k) and no add_path call had
\* declared T.
UndeclaredCase ==
    /\ calls # <<>>
    /\ IsAddDependency(LastCall)
    /\ \A i \in 1..(Len(calls) - 1) :
          IsAddPath(calls[i]) => calls[i].sink_filename # LastCall.target_name

\* C12: add_dependency(T, d, k) returns InvalidRecipe when no add_path call
\* has declared T, and then the graph is what it was before the call: same
\* nodes, edges, edge labels, artifacts, sinks list and target map.
C12_UndeclaredTarget ==
    UndeclaredCase =>
        /\ LastCall.result = "InvalidRecipe"
        /\ graph = before

\* add_dependency has been called with an undeclared target on a graph that
\* has operation nodes and sinks.
C12_Witness ==
    /\ UndeclaredCase
    /\ LastCall.result = "InvalidRecipe"
    /\ NumPaths >= 1
    /\ graph.edges # <<>>

(***************************************************************************)
(* The sink handling of add_path.                                          *)
(***************************************************************************)
\* The last call was add_path.
PathCase == calls # <<>> /\ IsAddPath(LastCall)

\* The node the last add_path call ended on: the node of its last
\* operation (the Source node when it was given no operation).
LastNode ==
    IF LastCall.operations = <<>> THEN graph.source
    ELSE LastCall.op_nodes[Len(LastCall.op_nodes)]

\* The Sink node the last add_path call created.
NewSink == graph.sinks[Len(graph.sinks)]

\* C13: after add_path(src, ops, T) a new Sink node exists with exactly one
\* incoming edge, from the node of the last operation, carrying NamedFile(T)
\* at slot 0; every other outgoing edge of that node carries the same
\* Artifact with the slot it had before; the target map sends T to the last
\* operation node and not to the Sink.
C13_SinkAdded ==
    PathCase =>
        LET T == LastCall.sink_filename
            into == InEdges(graph, NewSink)
            out == OutEdges(graph, LastNode)
        IN  /\ NewSink \notin NodeIds(before)
            /\ Len(graph.sinks) = Len(before.sinks) + 1
            /\ graph.nodes[NewSink] = Sink
            /\ Len(into) = 1
            /\ into[1].source = LastNode
            /\ into[1].output_slot = 0
            /\ graph.cells[into[1].output] = NamedFile(T)
            /\ Len(out) = Len(OutEdges(before, LastNode)) + 1
            /\ \A i \in 1..Len(out) :
                  /\ out[i].output = into[1].output
                  /\ out[i].target # NewSink =>
                        \E j \in 1..Len(before.edges) :
                            /\ before.edges[j].source = LastNode
                            /\ before.edges[j].target = out[i].target
                            /\ before.edges[j].output_slot = out[i].output_slot
            /\ graph.target_nodes[T] = LastNode
            /\ graph.target_nodes[T] # NewSink

\* add_path has ended on an operation node that already had an outgoing
\* edge with a slot other than 0 and an artifact other than the new one.
C13_Witness ==
    /\ PathCase
    /\ LastCall.operations # <<>>
    /\ \E j \in 1..Len(before.edges) :
          /\ before.edges[j].source = LastNode
          /\ before.edges[j].output_slot # 0
          /\ before.cells[before.edges[j].output] # NamedFile(LastCall.sink_filename)

\* The add_path calls made so far, in order.
PathCalls == SelectSeq(calls, IsAddPath)

\* C14 as stated: after any sequence of add_path calls there is one Sink per
\* declared target T, its incoming edge carries NamedFile(T), and a later
\* add_path for another target has not changed that artifact.
C14_SinkPerTarget ==
    /\ Len(graph.sinks) = Len(PathCalls)
    /\ \A i \in 1..Len(PathCalls) :
          LET into == InEdges(graph, graph.sinks[i])
          IN  /\ graph.nodes[graph.sinks[i]] = Sink
              /\ Len(into) = 1
              /\ graph.cells[into[1].output] = NamedFile(PathCalls[i].sink_filename)

(***************************************************************************)
(* The node list add_path returns.                                         *)
(***************************************************************************)
\* C15: add_path returns exactly one node index per operation given, in the
\* order given; the i-th index refers to a node whose operation has the
\* identifier of the i-th given operation, whether the node is new or
\* coalesced, and no inserted converter node is in the list.
C15_ReturnedNodes ==
    PathCase =>
        LET ops == LastCall.operations
            ns == LastCall.op_nodes
        IN  /\ Len(ns) = Len(ops)
            /\ \A i \in 1..Len(ns) :
                  /\ ns[i] \in NodeIds(graph)
                  /\ graph.nodes[ns[i]].identifier = ops[i].op.identifier
                  /\ ~IsConverter(graph.nodes[ns[i]])
            /\ \A i, j \in 1..Len(ns) : i < j => Reaches(graph, ns[i], ns[j])

\* add_path has returned a list with a coalesced node and a new node, and
\* has inserted a converter between two of the returned nodes.
C15_Witness ==
    /\ PathCase
    /\ \E i, j \in 1..Len(LastCall.op_nodes) :
          /\ LastCall.op_nodes[i] \in NodeIds(before)
          /\ LastCall.op_nodes[j] \notin NodeIds(before)
    /\ \E n \in NodeIds(graph) \ NodeIds(before) : IsConverter(graph.nodes[n])

(***************************************************************************)
(* The outputs vector of spawn_build.                                      *)
(***************************************************************************)
\* C16 as stated, for the nodes that hold an operation: for every executed
\* node the outputs vector has length max_slot + 1, and for every slot k its
\* element at index k is the Artifact of the outgoing edges tagged k, also
\* when a smaller slot number is used by no outgoing edge.
C16_OutputSlots ==
    \A n \in DOMAIN pc :
        (pc[n] = "exec" /\ ~IsSentinel(graph.nodes[n]) /\ OutEdges(graph, n) # <<>>) =>
            LET out == OutEdges(graph, n)
                outs == output_files(graph, n)
            IN  /\ Len(outs) = max_slot(out) + 1
                /\ \A i \in 1..Len(out) : outs[out[i].output_slot + 1] = out[i].output

(***************************************************************************)
(* The artifacts an operation reads and writes in execute.                 *)
(***************************************************************************)
\* The artifacts node n reads and writes when it is executed.
Reads(n) == Range(read_inputs(graph.nodes[n], input_files(graph, n)))

Writes(n) ==
    Range(written_outputs(graph.nodes[n], input_files(graph, n), output_files(graph, n)))

\* C17 as stated: during run no operation reads an Artifact while another
\* operation that writes it is executing, nor before every other operation
\* that writes it has finished.
C17_WriteBeforeRead ==
    \A m \in Executing : \A n \in NodeIds(graph) \ {m} :
        Reads(m) \cap Writes(n) # {} =>
            /\ n \notin Executing
            /\ status[n] = "success"

(***************************************************************************)
(* Holders of one Artifact calling its methods.  Each holder has a clone   *)
(* of the OperationOutput; the methods lock the cell, so each call is one  *)
(* step, except set_contents, which tests is_named_file and then locks     *)
(* again to write.  acalls lists the calls in the order they took effect.  *)
(***************************************************************************)
Holders == {1, 2}

Contents == {"x", "y"}

Idle == [pc |-> "idle"]

\* The values an Artifact is created with, and the named file on disk.
InitialRaws == {NamedFile("out"), TemporaryFile(None), InMemoryBytes("x")}

InitialDisks == {EmptyMap, MapInsert(EmptyMap, "out", "x")}

InitArtifact ==
    /\ graph = NewGraph
    /\ before = NewGraph
    /\ calls = <<>>
    /\ InitRunVars
    /\ InitCfgVars
    /\ \E raw \in InitialRaws, disk \in InitialDisks :
          store = [cells |-> <<raw>>, disk |-> disk, ntemp |-> 0]
    /\ held = <<>>
    /\ holder = [h \in Holders |-> Idle]
    /\ acalls = <<>>

\* The calls made or under way.
Started == Len(acalls) + Cardinality({h \in Holders : holder[h].pc # "idle"})

\* The record of a call: the value of the cell before it, what it returned,
\* and the number of temporary files created before and after it.
CallRecord(op, h, c, arg, res, value, after) ==
    [op |-> op, holder |-> h, cell |-> c, arg |-> arg, was |-> store.cells[c],
     result |-> res, value |-> value,
     ntemp_before |-> store.ntemp, ntemp_after |-> after.ntemp]

CallToFilename(h, c, io) ==
    /\ holder[h].pc = "idle"
    /\ Started < MaxCalls
    /\ io \in IoOutcomes(store.cells[c])
    /\ LET r == cell_to_filename(store, c, io)
       IN  /\ store' = r.st
           /\ acalls' = Append(acalls, CallRecord("to_filename", h, c, None,
                                                  r.result, r.value, r.st))
    /\ UNCHANGED <<cfgVars, buildVars, runVars, held, holder>>

CallSetBytes(h, c, bytes) ==
    /\ holder[h].pc = "idle"
    /\ Started < MaxCalls
    /\ store' = cell_set_bytes(store, c, bytes)
    /\ acalls' = Append(acalls, CallRecord("set_bytes", h, c, bytes, "Ok", None, store'))
    /\ UNCHANGED <<cfgVars, buildVars, runVars, held, holder>>

CallToBytes(h, c) ==
    /\ holder[h].pc = "idle"
    /\ Started < MaxCalls
    /\ LET r == cell_to_bytes(store, c)
       IN  acalls' = Append(acalls, CallRecord("to_bytes", h, c, None,
                                               r.result, r.value, store))
    /\ UNCHANGED <<cfgVars, buildVars, runVars, held, holder, store>>

\* set_contents: the is_named_file test.
CallSetContents(h, c, bytes) ==
    /\ holder[h].pc = "idle"
    /\ Started < MaxCalls
    /\ holder' = [holder EXCEPT ![h] = [pc |-> "set_contents", cell |-> c, bytes |-> bytes,
                                        named |-> cell_is_named_file(store, c)]]
    /\ UNCHANGED <<cfgVars, buildVars, runVars, held, store, acalls>>

\* set_contents: the write that follows the test.
SetContentsWrite(h, io) ==
    /\ holder[h].pc = "set_contents"
    /\ io \in (IF holder[h].named THEN IoOutcomes(store.cells[holder[h].cell]) ELSE {"ok"})
    /\ LET r == set_contents_write(store, holder[h].cell, holder[h].bytes,
                                   holder[h].named, io)
       IN  /\ store' = r.st
           /\ acalls' = Append(acalls, CallRecord("set_contents", h, holder[h].cell,
                                                  holder[h].bytes, r.result, None, r.st))
    /\ holder' = [holder EXCEPT ![h] = Idle]
    /\ UNCHANGED <<cfgVars, buildVars, runVars, held>>

NextArtifact ==
    \E h \in Holders :
        \/ \E c \in DOMAIN store.cells, io \in {"ok", "create_fails", "write_fails"} :
              CallToFilename(h, c, io)
        \/ \E c \in DOMAIN store.cells, bytes \in Contents : CallSetBytes(h, c, bytes)
        \/ \E c \in DOMAIN store.cells : CallToBytes(h, c)
        \/ \E c \in DOMAIN store.cells, bytes \in Contents : CallSetContents(h, c, bytes)
        \/ \E io \in {"ok", "create_fails", "write_fails"} : SetContentsWrite(h, io)

SpecArtifact == InitArtifact /\ [][NextArtifact]_vars

(***************************************************************************)
(* Properties of to_filename.                                              *)
(***************************************************************************)
IsSetter(a) == a.op \in {"set_bytes", "set_contents"}

\* No set_bytes or set_contents took effect on the cell of call i after it
\* and before call j.
NoSetterBetween(i, j) ==
    \A k \in (i + 1)..(j - 1) : ~(IsSetter(acalls[k]) /\ acalls[k].cell = acalls[i].cell)

\* Call i is a to_filename call that returned a path.
GotFilename(i) == acalls[i].op = "to_filename" /\ acalls[i].result = "Ok"

\* C19: to_filename on a cell in state InMemoryBytes(b) rewrites the cell to
\* TemporaryFile with a live handle whose file contains exactly b and returns
\* the path of that file; the cell stays that TemporaryFile until set_bytes
\* or set_contents is called on it.
C19_Materialized ==
    \A i \in 1..Len(acalls) :
        (GotFilename(i) /\ acalls[i].was.kind = "InMemoryBytes"
                        /\ NoSetterBetween(i, Len(acalls) + 1)) =>
            /\ store.cells[acalls[i].cell] = TemporaryFile(acalls[i].value)
            /\ acalls[i].value \in DOMAIN store.disk
            /\ i = Len(acalls) => store.disk[acalls[i].value] = acalls[i].was.bytes

\* to_filename has materialized an in-memory cell and other calls that are
\* not setters have followed on the cell.
C19_Witness ==
    \E i \in 1..Len(acalls) :
        /\ GotFilename(i)
        /\ acalls[i].was.kind = "InMemoryBytes"
        /\ i + 2 <= Len(acalls)
        /\ NoSetterBetween(i, Len(acalls) + 1)
        /\ acalls[i + 1].op = "to_bytes"

\* Calls i and j are to_filename calls by two holders of one Artifact, with
\* no setter in between, the first on an in-memory cell or on a temporary
\* file that has not been created, and both returned a path.
TwoHolders(i, j) ==
    /\ i < j
    /\ GotFilename(i)
    /\ GotFilename(j)
    /\ acalls[i].cell = acalls[j].cell
    /\ acalls[i].holder # acalls[j].holder
    /\ acalls[i].was \in {TemporaryFile(None)} \cup {InMemoryBytes(b) : b \in Contents}
    /\ NoSetterBetween(i, j)

\* C20: when two holders of one Artifact call to_filename with no set_bytes
\* or set_contents in between, on a cell that starts as InMemoryBytes or as
\* an unmaterialized TemporaryFile, exactly one temporary file is created
\* and both calls return the same path.
C20_OneTempFile ==
    \A i, j \in 1..Len(acalls) :
        TwoHolders(i, j) =>
            /\ acalls[j].ntemp_after - acalls[i].ntemp_before = 1
            /\ acalls[i].value = acalls[j].value

\* Two holders have called to_filename on an in-memory cell, with a to_bytes
\* call between them.
C20_Witness ==
    \E i, j \in 1..Len(acalls) :
        /\ TwoHolders(i, j)
        /\ j = i + 2
        /\ acalls[i].was.kind = "InMemoryBytes"

(***************************************************************************)
(* The temporary files of the artifacts during run.                        *)
(***************************************************************************)
\* C18 as stated: the temporary file backing an Artifact is not deleted
\* while an operation that obtained its path through to_filename is still
\* executing.
C18_TempFileAlive ==
    \A n \in Executing : \A i \in 1..Len(held[n]) :
        held[n][i] \in Range(TempPaths) => held[n][i] \in DOMAIN store.disk

(***************************************************************************)
(* Properties of set_contents, set_bytes and to_bytes.                     *)
(***************************************************************************)
\* Call i is a set_contents call that returned Ok.
DidSetContents(i) == acalls[i].op = "set_contents" /\ acalls[i].result = "Ok"

\* Call i + 1 is a to_bytes call on the cell of call i: nothing happened to
\* the cell in between.
ThenToBytes(i) ==
    /\ i + 1 <= Len(acalls)
    /\ acalls[i + 1].op = "to_bytes"
    /\ acalls[i + 1].cell = acalls[i].cell

\* C21: for every variant of the cell and every b, set_contents(b) followed
\* by to_bytes() on the same Artifact, with nothing in between, returns b;
\* for a NamedFile the file at its path then contains b.
C21_RoundTrip ==
    \A i \in 1..Len(acalls) :
        DidSetContents(i) =>
            /\ ThenToBytes(i) =>
                  /\ acalls[i + 1].result = "Ok"
                  /\ acalls[i + 1].value = acalls[i].arg
            /\ (acalls[i].was.kind = "NamedFile"
                /\ (i = Len(acalls) \/ (ThenToBytes(i) /\ i + 1 = Len(acalls)))) =>
                  /\ acalls[i].was.name \in DOMAIN store.disk
                  /\ store.disk[acalls[i].was.name] = acalls[i].arg

\* set_contents has replaced the contents of a materialized temporary file
\* by other bytes and to_bytes has followed.
C21_Witness ==
    \E i \in 1..Len(acalls) :
        /\ DidSetContents(i)
        /\ ThenToBytes(i)
        /\ acalls[i].was.kind = "TemporaryFile"
        /\ acalls[i].was.file # None
        /\ acalls[i].arg = "y"

(***************************************************************************)
(* PartialEq for OperationOutput: eq locks the cell of self, then the cell *)
(* of other, compares the two values and drops both guards.  A holder that *)
(* is between the two locks holds the mutex of self.  Locking a std Mutex  *)
(* that the thread already holds never returns: it deadlocks or panics,    *)
(* and a panic poisons the mutexes the thread holds, so that lock().unwrap *)
(* panics on them from then on.                                            *)
(***************************************************************************)
\* The values of the two cells being compared; two cells never own the same
\* temporary file.
CompareRaws ==
    {NamedFile("out"), NamedFile("s1"), TemporaryFile(None), TemporaryFile(TempPath(1)),
     TemporaryFile(TempPath(2)), InMemoryBytes("x"), InMemoryBytes("y")}

InitCompare ==
    /\ graph = NewGraph
    /\ before = NewGraph
    /\ calls = <<>>
    /\ InitRunVars
    /\ InitCfgVars
    /\ \E a, b \in CompareRaws :
          /\ (a.kind = "TemporaryFile" /\ a.file # None) => a # b
          /\ store = [cells |-> <<a, b>>,
                      disk |-> [p \in {r.file : r \in {x \in {a, b} :
                                   x.kind = "TemporaryFile" /\ x.file # None}} |-> ""],
                      ntemp |-> 2]
    /\ held = <<>>
    /\ holder = [h \in Holders |-> Idle]
    /\ acalls = <<>>

\* The holders that hold the mutex of cell c.
LockedBy(c) == {h \in Holders : holder[h].pc \in {"eq", "stuck"} /\ holder[h].self = c}

\* The mutex of cell c is poisoned: a holder panicked while holding it.
Poisoned(c) == \E h \in Holders : holder[h].pc = "panicked" /\ c \in holder[h].poisoned

\* eq: self.lock().unwrap()
EqLockSelf(h, a, b) ==
    /\ holder[h].pc = "idle"
    /\ Started < MaxCalls
    /\ LockedBy(a) = {}
    /\ IF Poisoned(a)
       THEN /\ holder' = [holder EXCEPT ![h] = [pc |-> "panicked", poisoned |-> {}]]
            /\ acalls' = Append(acalls, CallRecord("eq", h, a, b, "panic", None, store))
       ELSE /\ holder' = [holder EXCEPT ![h] = [pc |-> "eq", self |-> a, other |-> b]]
            /\ UNCHANGED acalls
    /\ UNCHANGED <<cfgVars, buildVars, runVars, held, store>>

\* eq: other.lock().unwrap(), the comparison, and the drop of both guards.
EqLockOther(h, relock) ==
    /\ holder[h].pc = "eq"
    /\ LET a == holder[h].self
           b == holder[h].other
       IN  IF a = b
           THEN \* the thread holds this mutex already
                IF relock = "deadlock"
                THEN /\ holder' = [holder EXCEPT ![h] = [pc |-> "stuck", self |-> a, other |-> b]]
                     /\ UNCHANGED acalls
                ELSE /\ holder' = [holder EXCEPT ![h] = [pc |-> "panicked", poisoned |-> {a}]]
                     /\ acalls' = Append(acalls, CallRecord("eq", h, a, b, "panic", None, store))
           ELSE /\ LockedBy(b) = {}
                /\ relock = "deadlock"
                /\ IF Poisoned(b)
                   THEN /\ holder' = [holder EXCEPT ![h] = [pc |-> "panicked", poisoned |-> {a}]]
                        /\ acalls' = Append(acalls, CallRecord("eq", h, a, b, "panic", None, store))
                   ELSE /\ holder' = [holder EXCEPT ![h] = Idle]
                        /\ acalls' = Append(acalls,
                              CallRecord("eq", h, a, b, "Ok",
                                         IF RawEq(store.cells[a], store.cells[b])
                                         THEN "true" ELSE "false", store))
    /\ UNCHANGED <<cfgVars, buildVars, runVars, held, store>>

NextCompare ==
    \E h \in Holders :
        \/ \E a, b \in DOMAIN store.cells : EqLockSelf(h, a, b)
        \/ \E relock \in {"deadlock", "panic"} : EqLockOther(h, relock)

SpecCompare == InitCompare /\ [][NextCompare]_vars

\* Holder h will never return from eq: it has panicked, it waits for a mutex
\* it holds itself, or it waits for a mutex held by a holder that waits for
\* the mutex h holds.
NeverReturns(h) ==
    \/ holder[h].pc \in {"stuck", "panicked"}
    \/ /\ holder[h].pc = "eq"
       /\ \E g \in Holders \ {h} :
             /\ holder[g].pc = "eq"
             /\ holder[g].self = holder[h].other
             /\ holder[g].other = holder[h].self

\* C22 as stated: comparing two Artifact handles terminates and returns true
\* exactly when their variants and payloads are equal, also when the two
\* handles refer to the same cell.
C22_Compare ==
    /\ \A h \in Holders : ~NeverReturns(h)
    /\ \A i \in 1..Len(acalls) :
          acalls[i].op = "eq" =>
              /\ acalls[i].result = "Ok"
              /\ acalls[i].value = "true"
                    <=> store.cells[acalls[i].cell] = store.cells[acalls[i].arg]

(***************************************************************************)
(* The semaphore permits during run.                                       *)
(***************************************************************************)
\* C23: every execute call holds one permit acquired for that call and gives
\* it back when execute returns, with success, a non-zero status or an
\* error: the permits in the semaphore and the executes under way always add
\* up to job_limit, and all job_limit permits are available whenever no
\* execute is under way.
C23_PermitsReturned ==
    Running =>
        /\ permits + Cardinality(Executing) = job_limit
        /\ Executing = {} => permits = job_limit

\* Executes have returned an error, a non-zero status and success, and none
\* is under way.
C23_Witness ==
    /\ Running
    /\ job_limit > 0
    /\ Executing = {}
    /\ \E n, m, k \in DOMAIN status :
          /\ status[n] \in ErrorKinds
          /\ status[m] = "nonzero"
          /\ status[k] = "success" /\ ~IsSentinel(graph.nodes[k])

(***************************************************************************)
(* The error run returns.                                                  *)
(***************************************************************************)
\* The nodes whose execute returned an error value.
Raised == {n \in DOMAIN status : status[n] \in ErrorKinds}

\* C24: when exactly one node has failed, because its execute returned an
\* error value, run returns that same error, with the same kind.
C24_SameError ==
    (runPc = "returned" /\ IsErr(runResult)) =>
        \A n \in Raised :
            (Raised = {n} /\ \A m \in DOMAIN status : status[m] # "nonzero")
                => runResult = status[n]

(***************************************************************************)
(* The effect of set_bytes and set_contents on the cell.                   *)
(***************************************************************************)
\* The write of a set_contents call finds the cell in the variant its
\* is_named_file test found: no other holder has replaced the value of the
\* cell in between.
SameVariantAsTested(h) ==
    holder[h].named = cell_is_named_file(store, holder[h].cell)

\* C25: set_bytes(b) turns the cell into InMemoryBytes(b) whatever its
\* previous variant; set_contents(b) on a NamedFile leaves the cell the same
\* NamedFile and changes only the contents of its file, and on any other
\* variant it turns the cell into InMemoryBytes(b) as set_bytes(b) does.
C25_SetterEffect ==
    [][\A h \in Holders :
          /\ \A c \in DOMAIN store.cells, b \in Contents :
                CallSetBytes(h, c, b) => store'.cells[c] = InMemoryBytes(b)
          /\ \A io \in {"ok", "create_fails", "write_fails"} :
                (SetContentsWrite(h, io) /\ SameVariantAsTested(h)) =>
                    LET c == holder[h].cell
                        b == holder[h].bytes
                    IN  IF store.cells[c].kind = "NamedFile"
                        THEN /\ store'.cells[c] = store.cells[c]
                             /\ store'.disk = MapInsert(store.disk, store.cells[c].name, b)
                             /\ store'.ntemp = store.ntemp
                        ELSE /\ store'.cells[c] = InMemoryBytes(b)
                             /\ store' = cell_set_bytes(store, c, b)]_vars

\* set_contents has written the file of a NamedFile, set_bytes has then made
\* the cell InMemoryBytes, and set_contents has then replaced those bytes.
C25_Witness ==
    /\ Len(acalls) = 3
    /\ acalls[1].op = "set_contents" /\ acalls[1].was.kind = "NamedFile"
    /\ acalls[2].op = "set_bytes" /\ acalls[2].was.kind = "NamedFile"
    /\ acalls[3].op = "set_contents" /\ acalls[3].was.kind = "InMemoryBytes"
    /\ acalls[3].arg # acalls[2].arg
    /\ store.cells[1] = InMemoryBytes(acalls[3].arg)

(***************************************************************************)
(* Reading a configuration file.                                           *)
(***************************************************************************)
InitConfig ==
    /\ graph = NewGraph
    /\ before = NewGraph
    /\ calls = <<>>
    /\ InitRunVars
    /\ InitArtVars
    /\ document \in Documents
    /\ config = NotParsed
    /\ toGraph = NoToGraph

\* serde_yaml_ng::from_str::<Config> on the document.
Deserialize ==
    /\ config = NotParsed
    /\ config' = deserialize(document)
    /\ UNCHANGED <<document, toGraph, buildVars, runVars, artVars>>

SpecConfig == InitConfig /\ [][Deserialize]_vars

\* The recipe the document gives explicitly: none when the key is absent.
GivenRecipe == IF document.recipe = <<>> THEN EmptyMap ELSE document.recipe[1]

\* C26: a deserialized Config has a provider exactly when no explicit recipe
\* is given: with an empty recipe the provider is the one named by
\* recipeProvider, GoogleFonts when the key is absent, and the recipe stays
\* empty; with a non-empty recipe the provider is None and the recipe holds
\* exactly the given targets.
C26_ProviderOrRecipe ==
    config.result = "Ok" =>
        /\ config.provider # <<>> <=> DOMAIN GivenRecipe = {}
        /\ DOMAIN GivenRecipe = {} =>
              /\ config.provider = IF document.recipeProvider = <<>>
                                   THEN <<"googlefonts">> ELSE document.recipeProvider
              /\ DOMAIN config.recipe = {}
        /\ DOMAIN GivenRecipe # {} =>
              /\ config.provider = <<>>
              /\ config.recipe = GivenRecipe

\* A document with a recipe of two targets that also names the Noto provider
\* without the sources it requires has been deserialized.
C26_Witness ==
    /\ config.result = "Ok"
    /\ DOMAIN GivenRecipe = ConfigTargets
    /\ document.recipeProvider = <<"noto">>
    /\ document.sources = <<>>

(***************************************************************************)
(* Who holds the permits.                                                  *)
(***************************************************************************)
\* The node tasks that are started and are not inside execute: they trigger
\* their dependencies, wait for their inputs, for a permit or for the
\* console mutex, or hold the console mutex.
Waiting == {n \in DOMAIN pc : pc[n] \notin {"idle", "exec", "done"}}

\* C27: a permit is held only by a task that is inside its execute.  The
\* tasks that trigger dependencies or wait for inputs, for a permit or for the
\* console mutex hold none: the permits that are out are those of the
\* executes under way, so a task that is ready to execute finds a permit
\* unless job_limit executes are under way.
C27_WaitingHoldsNoPermit ==
    Running =>
        /\ job_limit - permits = Cardinality(Executing)
        /\ \A m \in DOMAIN pc :
              pc[m] = "sem" => (available(permits) <=> Cardinality(Executing) < job_limit)

\* With one permit, a task waits for the console mutex after its execute
\* while another task is inside execute.
C27_Witness ==
    /\ Running
    /\ job_limit = 1
    /\ \E n, m \in DOMAIN pc :
          /\ pc[n] = "console"
          /\ status[n] = "success"
          /\ pc[m] = "exec"

(***************************************************************************)
(* A failure and the other node tasks.                                     *)
(***************************************************************************)
\* run has seen an error in one of the futures it joins.
ErrorObserved == runPc = "join" /\ \E n \in snapshot : IsErr(result[n])

\* C28: a failure of one node does not cancel other nodes: an execute that
\* has started is left only by its own return, whatever has failed
\* elsewhere and whether or not run has returned; and run returns the error
\* once it has observed it, without waiting for the executes under way.
C28_NoCancellation ==
    /\ [][\A n \in DOMAIN pc :
             (pc[n] = "exec" /\ n \in DOMAIN pc') =>
                 \/ pc'[n] = "exec" /\ status'[n] = status[n] /\ held'[n] = held[n]
                 \/ \E o \in ExecOutcomes(graph.nodes[n]) : Execute(n, o)]_vars
    /\ ErrorObserved ~> (runPc = "returned" /\ IsErr(runResult))

\* run has returned the error of one node while the execute of another node
\* is still under way.
C28_Witness ==
    /\ runPc = "returned"
    /\ IsErr(runResult)
    /\ \E n, m \in DOMAIN pc :
          /\ status[n] \in ErrorKinds
          /\ pc[m] = "exec"

(***************************************************************************)
(* The futures map.                                                        *)
(***************************************************************************)
\* The node tasks that have asked for the future of n: the consumers of n
\* whose loop over their in-edges has passed n.
Consumers(n) ==
    {m \in DOMAIN pc : \E i \in 1..cursor[m] : Inputs(m)[i] = n}

\* m has returned the error of one of its inputs, without executing.
FailedByInput(m) == pc[m] = "done" /\ IsErr(result[m]) /\ status[m] = "none"

\* C29: the futures map holds at most one future per node.  Of the trigger
\* calls for one node only the first registers a future, a registered future
\* is never replaced or removed during run, its outcome never changes once
\* it is there, and every consumer that fails by its inputs returns the
\* outcome of one of them, the same for every consumer.
C29_OneFuture ==
    [][Running =>
          \A n \in DOMAIN futures :
              /\ futures[n] # 0 => futures'[n] = futures[n]
              /\ (futures[n] = 0 /\ futures'[n] # 0) =>
                    \/ futures'[n] = ByRun
                    \/ \E m \in DOMAIN pc :
                          /\ futures'[n] = m
                          /\ \E i \in 1..cursor'[m] : Inputs(m)[i] = n
              /\ result[n] # "none" => result'[n] = result[n]
              /\ FailedByInput(n)' =>
                    \E i \in 1..Len(Inputs(n)) :
                        /\ futures'[Inputs(n)[i]] # 0
                        /\ result'[n] = result'[Inputs(n)[i]]]_vars

\* Two consumers have asked for the future of one node, which has failed,
\* and both have returned its error.
C29_Witness ==
    /\ Running
    /\ \E n, m1, m2 \in DOMAIN pc :
          /\ m1 # m2
          /\ {m1, m2} \subseteq Consumers(n)
          /\ status[n] \in ErrorKinds \cup {"nonzero"}
          /\ FailedByInput(m1) /\ FailedByInput(m2)
          /\ result[m1] = result[n] /\ result[m2] = result[n]

(***************************************************************************)
(* What a successful run has done.                                         *)
(***************************************************************************)
\* C30: if run returns Ok, every node reachable from a node without outgoing
\* edges has had its execute invoked and returned with success before run
\* returned, although run awaits only the futures that are in the map when
\* its trigger loop ends.
C30_OkMeansAllBuilt ==
    (runPc = "returned" /\ runResult = "Ok") =>
        \A n \in NodeIds(graph) :
            Reachable(n) =>
                /\ execCount[n] = 1
                /\ status[n] = "success"
                /\ result[n] = "Ok"
                /\ pc[n] = "done"

\* run has returned Ok on a graph with an operation node whose future was
\* not in the map when the trigger loop ended.
C30_Witness ==
    /\ runPc = "returned"
    /\ runResult = "Ok"
    /\ \E n \in NodeIds(graph) :
          /\ Reachable(n)
          /\ ~IsSentinel(graph.nodes[n])
          /\ n \notin snapshot
          /\ futures[n] \notin {0, ByRun}

(***************************************************************************)
(* Converters and distinct sources.                                        *)
(***************************************************************************)
\* Calls i and j are add_path calls with different source names whose first
\* operations both need a conversion from Path.
ConvertedSourcesCase(i, j) ==
    /\ i < j
    /\ IsAddPath(calls[i]) /\ IsAddPath(calls[j])
    /\ calls[i].source_filename # calls[j].source_filename
    /\ calls[i].operations # <<>> /\ calls[j].operations # <<>>
    /\ WantedConv(calls[i], 1) # <<>>
    /\ WantedConv(calls[j], 1) # <<>>

\* The node that feeds the first operation node of an add_path call.
FirstFeeder(c) == InEdges(graph, c.op_nodes[1])[1].source

\* C31: two add_path calls with different source names whose first operations
\* both need a conversion from Path do not share a converter node, and the
\* first operation of the later call is not fed the artifact of the source
\* file of the earlier call.
C31_ConvertersApart ==
    \A i, j \in 1..Len(calls) :
        ConvertedSourcesCase(i, j) =>
            /\ FirstFeeder(calls[i]) # FirstFeeder(calls[j])
            /\ \A e \in Range(InEdges(graph, FirstFeeder(calls[j]))) :
                  graph.cells[e.output] # NamedFile(calls[i].source_filename)

(***************************************************************************)
(* The shape of a graph built by add_path alone.                           *)
(***************************************************************************)
SourceNodes == {n \in NodeIds(graph) : graph.nodes[n].shortname = "Source"}

\* C32: after any sequence of add_path calls the graph is a tree rooted at
\* the single Source node: exactly one node is the Source, it has no incoming
\* edge, every other node has exactly one incoming edge, and there is no
\* cycle.
C32_Tree ==
    /\ SourceNodes = {graph.source}
    /\ InEdges(graph, graph.source) = <<>>
    /\ \A n \in NodeIds(graph) \ {graph.source} : Len(InEdges(graph, n)) = 1
    /\ \A n \in NodeIds(graph) : ~Reaches(graph, n, n)
    /\ \A n \in NodeIds(graph) : n \in ReachFrom(graph, {graph.source})

\* Two paths have been added that share their first operation node and part
\* there, one of them through a converter.
C32_Witness ==
    /\ NumPaths = 2
    /\ \E n \in NodeIds(graph) \ {graph.source} :
          /\ Cardinality(Children(graph, n)) >= 2
          /\ \E m \in Children(graph, n) : IsConverter(graph.nodes[m])

(***************************************************************************)
(* The nodes run starts from.                                              *)
(***************************************************************************)
\* Call i is a successful add_dependency call that has moved the Sink edge
\* of its target to its dependent node.
MovedSink(i) ==
    /\ IsAddDependency(calls[i])
    /\ calls[i].result = "Ok"
    /\ \E e \in Range(graph.edges) :
          /\ e.source = calls[i].dependent_node
          /\ e.target \in Range(graph.sinks)
          /\ e.source # graph.target_nodes[calls[i].target_name]
          /\ graph.cells[e.output] = NamedFile(calls[i].target_name)

\* C33: once a path has been added, and after any add_dependency calls on
\* operation nodes returned by add_path, the nodes without outgoing edges are
\* exactly the Sink nodes recorded in graph.sinks, one per add_path call, and
\* every operation node is reachable from them against the edges.
C33_ExternalsAreSinks ==
    NumPaths >= 1 =>
        /\ Externals(graph) = Range(graph.sinks)
        /\ Len(graph.sinks) = NumPaths
        /\ Cardinality(Range(graph.sinks)) = NumPaths
        /\ \A n \in NodeIds(graph) :
              /\ n \in Range(graph.sinks) <=> graph.nodes[n].shortname = "Sink"
              /\ ReachFrom(graph, {n}) \cap Range(graph.sinks) # {}

C33_Witness ==
    /\ NumPaths >= 2
    /\ \E i \in 1..Len(calls) : MovedSink(i)

(***************************************************************************)
(* The order of the add_path calls.                                        *)
(***************************************************************************)
\* The shape of the tree under node n: its operation and, for each outgoing
\* edge, the artifact value and slot on the edge and the shape under its
\* target.  Two trees with the same shape and the same number of nodes differ
\* only in the numbering of their nodes.
RECURSIVE Shape(_, _)
Shape(g, n) ==
    [op |-> g.nodes[n],
     out |-> {[artifact |-> g.cells[e.output], slot |-> e.output_slot,
               to |-> Shape(g, e.target)] : e \in Range(OutEdges(g, n))}]

Isomorphic(g, h) ==
    /\ Len(g.nodes) = Len(h.nodes)
    /\ Len(g.edges) = Len(h.edges)
    /\ Shape(g, g.source) = Shape(h, h.source)

\* The graph built by the two add_path calls made so far, issued in the
\* other order.
OtherOrder ==
    LET first == add_path(NewGraph, calls[2].source_filename, calls[2].operations,
                          calls[2].sink_filename).g
    IN  add_path(first, calls[1].source_filename, calls[1].operations,
                 calls[1].sink_filename).g

\* C34: the graph built by a set of add_path calls does not depend on the
\* order of the calls: the graphs of two orders are isomorphic, with the same
\* operation at each node and the same artifact variant and file name on each
\* edge.
C34_OrderIndependent ==
    NumPaths = 2 => Isomorphic(graph, OtherOrder)

(***************************************************************************)
(* What a successful add_dependency changes.                               *)
(***************************************************************************)
\* The last call was a successful add_dependency.
WiredCase == calls # <<>> /\ IsAddDependency(LastCall) /\ LastCall.result = "Ok"

\* C35: a successful add_dependency(T, d, k) adds and removes no nodes,
\* leaves the target map and the sinks list unchanged, and changes no edge
\* other than adding or relabelling the edge producer -> d and moving the
\* Sink edge of T from the producer to d.
C35_DependencyFrame ==
    WiredCase =>
        LET T == LastCall.target_name
            d == LastCall.dependent_node
            p == before.target_nodes[T]
            s == SinkOf(before, T)
            old == Range(before.edges)
            new == Range(graph.edges)
        IN  /\ graph.nodes = before.nodes
            /\ graph.target_nodes = before.target_nodes
            /\ graph.sinks = before.sinks
            /\ \A e \in old \ new :
                  \/ e.source = p /\ e.target = d
                  \/ e.source = p /\ e.target = s
            /\ \A e \in new \ old :
                  \/ e.source = p /\ e.target = d
                  \/ e.source = d /\ e.target = s

(***************************************************************************)
(* Paths over operations of every declared kind combination, AddSubset     *)
(* (SourceFont to SourceFont) included.                                    *)
(***************************************************************************)
AddSubset == [shortname |-> "AddSubset", identifier |-> "AddSubset",
              input_kinds |-> <<"SourceFont">>, output_kinds |-> <<"SourceFont">>]

\* The number of operations over all paths.
MaxKindSteps == 3

KindOps == {FixA, Compress, BuildStat, AddSubset}

KindOpLists(done) == SeqsUpTo([file : {None}, op : KindOps], MaxKindSteps - done)

NextKinds ==
    \E s \in SourceNames, ops \in KindOpLists(SumLen(calls)) : AddPath(s, ops, MaxPaths)

SpecKinds == InitGraph /\ [][NextKinds]_vars

\* current_kind of add_path when it reaches the j-th operation of call c.
RECURSIVE CurrentKind(_, _)
CurrentKind(c, j) ==
    IF j = 1 THEN "Path"
    ELSE LET k == CurrentKind(c, j - 1)
             op == c.operations[j - 1].op
             cv == IF need_conversion(first_kind(op.input_kinds), k)
                   THEN conv(k, first_kind(op.input_kinds)) ELSE <<>>
             k1 == IF cv = <<>> THEN k ELSE cv[1].kind
             ok == first_kind(op.output_kinds)
         IN  IF ok # "Any" THEN ok ELSE k1

\* The j-th operation of call c wants a kind that is neither Any nor the
\* current kind, and the pair is not Path/Bytes in either direction.
OtherMismatch(c, j) ==
    LET k == CurrentKind(c, j)
        want == first_kind(c.operations[j].op.input_kinds)
    IN  /\ want # "Any"
        /\ want # k
        /\ <<k, want>> \notin {<<"Path", "Bytes">>, <<"Bytes", "Path">>}

NoConversionCase(c, j) ==
    LET k == CurrentKind(c, j)
        want == first_kind(c.operations[j].op.input_kinds)
    IN  want = "Any" \/ want = k \/ OtherMismatch(c, j)

\* C36: add_path puts no converter before an operation whose first input
\* kind is Any or the current kind, nor for a mismatch other than Path to
\* Bytes or Bytes to Path: the operation node hangs directly on the node
\* before it (the Source node for the first operation), and the call
\* returns one node per operation.
C36_NoConverter ==
    \A i \in 1..Len(calls) : IsAddPath(calls[i]) =>
        /\ Len(calls[i].op_nodes) = Len(calls[i].operations)
        /\ \A j \in 1..Len(calls[i].operations) :
               NoConversionCase(calls[i], j) =>
                   LET m == calls[i].op_nodes[j]
                   IN  /\ OpEq(graph.nodes[m], calls[i].operations[j].op)
                       /\ Parents(graph, m) = {PrevNode(calls[i], j)}
                       /\ ~IsConverter(graph.nodes[PrevNode(calls[i], j)])

\* Two paths are built; one has Compress (wants Bytes) right after AddSubset
\* (gives SourceFont), one has AddSubset first (SourceFont wanted of a Path),
\* and one operation wants Any.
C36_Witness ==
    /\ NumPaths = MaxPaths
    /\ \E i \in 1..Len(calls) :
           /\ Len(calls[i].operations) = 2
           /\ calls[i].operations[1].op = AddSubset
           /\ calls[i].operations[2].op = Compress
           /\ OtherMismatch(calls[i], 1)
           /\ OtherMismatch(calls[i], 2)
    /\ \E i \in 1..Len(calls) : \E j \in 1..Len(calls[i].operations) :
           calls[i].operations[j].op = BuildStat

(***************************************************************************)
(* NamedFile cells.                                                        *)
(***************************************************************************)
\* C37: no call turns a cell into a NamedFile or changes the path of one: a
\* cell that is a NamedFile after a step was the same NamedFile before it;
\* and a NamedFile cell that is something else after a step was changed by
\* set_bytes, never by to_filename, to_bytes, is_named_file or set_contents.
C37_NamedFileStable ==
    [][\A c \in DOMAIN store.cells :
          /\ c \in DOMAIN store'.cells
          /\ store'.cells[c].kind = "NamedFile" => store'.cells[c] = store.cells[c]
          /\ (store.cells[c].kind = "NamedFile" /\ store'.cells[c] # store.cells[c]) =>
                \E h \in Holders, b \in Contents : CallSetBytes(h, c, b)]_vars

\* A NamedFile went through to_filename and a successful set_contents and
\* stayed the same NamedFile; set_bytes then made it InMemoryBytes.
C37_Witness ==
    /\ Len(acalls) = 3
    /\ acalls[1].op = "to_filename" /\ acalls[1].result = "Ok"
    /\ acalls[2].op = "set_contents" /\ acalls[2].result = "Ok"
    /\ acalls[3].op = "set_bytes"
    /\ \A i \in 1..3 : acalls[i].was = NamedFile("out")
    /\ store.cells[1].kind = "InMemoryBytes"

(***************************************************************************)
(* Config::to_graph (recipe.rs).  A recipe maps each target to its steps:  *)
(* a SourceStep, or an OperationStep with its needs.  toGraph holds the    *)
(* locals of the call: the targets the first loop has still to visit (a    *)
(* HashMap is iterated in no particular order), the dependencies vector,   *)
(* the number of needs of its first entry that are wired, and the result.  *)
(***************************************************************************)
MaxTargets == 2

MaxNeeds == 2

\* A name that no recipe has as a target.
Undeclared == "T9"

SourceStep(s) == [step |-> "source", source |-> s]

OperationStep(op, needs) == [step |-> "operation", file |-> None, op |-> op, needs |-> needs]

RecipeTargets(n) == {TargetNames[i] : i \in 1..n}

\* The place of a name in the needs vectors: T1, the undeclared name, T2, ...
NeedPlace(name) ==
    IF name = Undeclared THEN 2
    ELSE IF name = TargetNames[1] THEN 1
    ELSE 1 + (CHOOSE i \in DOMAIN TargetNames : TargetNames[i] = name)

\* The needs vectors: up to MaxNeeds different names, in the order of their
\* places (the targets are visited in every order).
NeedLists(names) ==
    {q \in SeqsUpTo(names, MaxNeeds) :
        q # <<>> /\ \A i, j \in DOMAIN q : i < j => NeedPlace(q[i]) < NeedPlace(q[j])}

\* The step lists of a target: with and without a source step first, with a
\* source step later, and ending in an operation that has needs.
TargetSteps(names) ==
    {<<SourceStep("s1")>>,
     <<SourceStep("s1"), OperationStep(FixA, <<>>)>>,
     <<OperationStep(FixA, <<>>)>>,
     <<SourceStep("s1"), SourceStep("s2")>>}
    \cup {<<SourceStep("s1"), OperationStep(BuildStat, q)>> : q \in NeedLists(names)}

GraphRecipes ==
    UNION {[RecipeTargets(n) -> TargetSteps(RecipeTargets(n) \cup {Undeclared})] :
              n \in 1..MaxTargets}

\* to_graph after BuildGraph::new and self.recipe().
BeginToGraph(recipe) ==
    [pc |-> "paths", recipe |-> recipe, todo |-> DOMAIN recipe, dependencies |-> <<>>,
     wired |-> 0, result |-> "none"]

InitToGraph ==
    /\ graph = NewGraph
    /\ before = NewGraph
    /\ calls = <<>>
    /\ InitRunVars
    /\ InitArtVars
    /\ document = NoDocument
    /\ config = NotParsed
    /\ toGraph \in {BeginToGraph(r) : r \in GraphRecipes}

\* Step::to_operation
to_operation(step) ==
    IF step.step = "operation"
    THEN [result |-> "Ok", file |-> step.file, op |-> step.op, needs |-> step.needs]
    ELSE [result |-> "InvalidRecipe"]

\* The (step node, needs) pairs of a path, for the steps that have needs.
RECURSIVE path_dependencies(_, _, _)
path_dependencies(operations, step_nodes, step_idx) ==
    IF step_idx >= Len(operations) THEN <<>>
    ELSE (IF operations[step_idx + 1].needs # <<>> /\ step_idx < Len(step_nodes)
          THEN <<[node |-> step_nodes[step_idx + 1],
                  needs |-> operations[step_idx + 1].needs]>>
          ELSE <<>>)
         \o path_dependencies(operations, step_nodes, step_idx + 1)

\* A slot numbering that starts at the primary input.
needs_slot_from_zero(slot) == slot

\* The input slot of the need at position slot (0-based) of a needs vector:
\* slot 0 is the primary input from the path.
needs_slot(slot) == slot + 1

ToGraphFails ==
    toGraph' = [toGraph EXCEPT !.pc = "done", !.result = "InvalidRecipe"]

\* One turn of the loop over the recipe.
ToGraphPath(target) ==
    /\ toGraph.pc = "paths"
    /\ target \in toGraph.todo
    /\ LET steps == toGraph.recipe[target]
           rest == IF steps = <<>> THEN <<>> ELSE Tail(steps)
       IN  IF \/ steps = <<>>
              \/ steps[1].step # "source"
              \/ \E i \in DOMAIN rest : to_operation(rest[i]).result # "Ok"
           THEN ToGraphFails /\ UNCHANGED buildVars
           ELSE LET operations == [i \in DOMAIN rest |-> to_operation(rest[i])]
                    operations_for_path ==
                        [i \in DOMAIN rest |-> [file |-> operations[i].file,
                                                op |-> operations[i].op]]
                    r == add_path(graph, steps[1].source, operations_for_path, target)
                IN  /\ graph' = r.g
                    /\ before' = graph
                    /\ calls' = Append(calls, [call |-> "add_path",
                                               source_filename |-> steps[1].source,
                                               operations |-> operations_for_path,
                                               sink_filename |-> target,
                                               op_nodes |-> r.op_nodes])
                    /\ toGraph' = [toGraph EXCEPT
                           !.todo = @ \ {target},
                           !.dependencies = @ \o path_dependencies(operations, r.op_nodes, 0),
                           !.pc = IF toGraph.todo = {target} THEN "deps" ELSE "paths"]
    /\ UNCHANGED <<document, config, runVars, artVars>>

\* One add_dependency call of the loops over the dependencies.
ToGraphDependency ==
    /\ toGraph.pc = "deps"
    /\ toGraph.dependencies # <<>>
    /\ LET dep == toGraph.dependencies[1]
           slot == toGraph.wired
           need_target == dep.needs[slot + 1]
           r == add_dependency(graph, need_target, dep.node, needs_slot(slot))
       IN  /\ graph' = r.g
           /\ before' = graph
           /\ calls' = Append(calls, [call |-> "add_dependency",
                                      target_name |-> need_target,
                                      dependent_node |-> dep.node,
                                      input_slot |-> needs_slot(slot),
                                      result |-> r.result,
                                      op_nodes |-> <<>>])
           /\ IF r.result # "Ok" THEN ToGraphFails
              ELSE IF slot + 1 = Len(dep.needs)
              THEN toGraph' = [toGraph EXCEPT !.dependencies = Tail(@), !.wired = 0]
              ELSE toGraph' = [toGraph EXCEPT !.wired = slot + 1]
    /\ UNCHANGED <<document, config, runVars, artVars>>

\* Ok(graph)
ToGraphReturn ==
    /\ toGraph.pc = "deps"
    /\ toGraph.dependencies = <<>>
    /\ toGraph' = [toGraph EXCEPT !.pc = "done", !.result = "Ok"]
    /\ UNCHANGED <<document, config, buildVars, runVars, artVars>>

NextToGraph ==
    \/ \E target \in RecipeTargets(MaxTargets) : ToGraphPath(target)
    \/ ToGraphDependency
    \/ ToGraphReturn

SpecToGraph == InitToGraph /\ [][NextToGraph]_vars

(***************************************************************************)
(* Properties of Config::to_graph.                                         *)
(***************************************************************************)
\* The add_path call to_graph made for target t.
PathCallOf(t) ==
    calls[CHOOSE i \in 1..Len(calls) : IsAddPath(calls[i]) /\ calls[i].sink_filename = t]

PathDone(t) == \E i \in 1..Len(calls) : IsAddPath(calls[i]) /\ calls[i].sink_filename = t

\* The add_dependency calls the recipe asks for, as <<target_name,
\* dependent_node, input_slot>>: entry i (counted from 0) of the needs of a
\* step goes to slot i + 1 of the node of that step.  Step j + 1 of a target
\* is operation j of its path.
WantedDependencies ==
    {<<toGraph.recipe[t][j + 1].needs[i + 1], PathCallOf(t).op_nodes[j], i + 1>> :
        <<t, j, i>> \in {w \in (DOMAIN toGraph.recipe) \X (1..MaxSteps) \X (0..(MaxNeeds - 1)) :
                            /\ PathDone(w[1])
                            /\ w[2] + 1 <= Len(toGraph.recipe[w[1]])
                            /\ toGraph.recipe[w[1]][w[2] + 1].step = "operation"
                            /\ w[3] + 1 <= Len(toGraph.recipe[w[1]][w[2] + 1].needs)}}

MadeDependencies ==
    {<<calls[i].target_name, calls[i].dependent_node, calls[i].input_slot>> :
        i \in {k \in 1..Len(calls) : IsAddDependency(calls[k])}}

\* Some needs entry of the recipe names no target of the recipe.
UndeclaredNeed ==
    \E t \in DOMAIN toGraph.recipe : \E j \in DOMAIN toGraph.recipe[t] :
        /\ toGraph.recipe[t][j].step = "operation"
        /\ \E i \in DOMAIN toGraph.recipe[t][j].needs :
              toGraph.recipe[t][j].needs[i] \notin DOMAIN toGraph.recipe

\* C39: to_graph has added the path of every target before it wires any
\* dependency, so a need that names a target of the recipe is wired whatever
\* the order of the targets; the add_dependency calls it makes are those of
\* the needs entries, entry i (0-based) at input slot i + 1, where the edge
\* is tagged right after the call; and with a needs entry that names no
\* target of the recipe to_graph returns InvalidRecipe.
C39_ToGraph ==
    /\ \A i \in 1..Len(calls) : IsAddDependency(calls[i]) =>
          /\ \A t \in DOMAIN toGraph.recipe :
                \E k \in 1..(i - 1) : IsAddPath(calls[k]) /\ calls[k].sink_filename = t
          /\ \A k \in i..Len(calls) : IsAddDependency(calls[k])
          /\ calls[i].target_name \in DOMAIN toGraph.recipe => calls[i].result = "Ok"
    /\ MadeDependencies \subseteq WantedDependencies
    /\ (toGraph.pc = "done" /\ toGraph.result = "Ok") =>
          MadeDependencies = WantedDependencies
    /\ (calls # <<>> /\ IsAddDependency(LastCall) /\ LastCall.result = "Ok") =>
          LET e == find_edge(graph, before.target_nodes[LastCall.target_name],
                             LastCall.dependent_node)
          IN  e # 0 /\ graph.edges[e].output_slot = LastCall.input_slot
    /\ (toGraph.pc = "done" /\ UndeclaredNeed) => toGraph.result = "InvalidRecipe"

\* to_graph has returned InvalidRecipe from its second add_dependency call,
\* whose need names no target; the first one, at slot 1, wired a target that
\* was added after the path of the step that needs it.
C39_Witness ==
    /\ toGraph.pc = "done"
    /\ toGraph.result = "InvalidRecipe"
    /\ Len(calls) = 4
    /\ IsAddPath(calls[1]) /\ IsAddPath(calls[2])
    /\ calls[3].call = "add_dependency" /\ calls[3].result = "Ok"
    /\ calls[3].input_slot = 1
    /\ Len(calls[1].op_nodes) = 1
    /\ calls[3].dependent_node = calls[1].op_nodes[1]
    /\ calls[3].target_name = calls[2].sink_filename
    /\ calls[4].call = "add_dependency" /\ calls[4].result = "InvalidRecipe"
    /\ calls[4].input_slot = 2
    /\ calls[4].target_name = Undeclared

(***************************************************************************)
(* to_graph followed by run, as main does: recipes of two or three targets *)
(* whose last target ends in BuildStat with needs.                         *)
(***************************************************************************)
\* T1 alone, then T2 ending in BuildStat that needs T1: from another
\* source, from the same source, and after the operation of T1.
StatRecipes ==
    {[t \in RecipeTargets(2) |-> IF t = "T1" THEN first ELSE second] :
        first \in {<<SourceStep("s1")>>,
                   <<SourceStep("s1"), OperationStep(FixA, <<>>)>>},
        second \in {<<SourceStep("s2"), OperationStep(BuildStat, <<"T1">>)>>,
                    <<SourceStep("s1"), OperationStep(FixA, <<>>),
                      OperationStep(BuildStat, <<"T1">>)>>}}

InitBuild ==
    /\ graph = NewGraph
    /\ before = NewGraph
    /\ calls = <<>>
    /\ InitRunVars
    /\ InitArtVars
    /\ document = NoDocument
    /\ config = NotParsed
    /\ toGraph \in {BeginToGraph(r) : r \in StatRecipes}

\* main: run is given the graph that to_graph returned.
NextBuild ==
    \/ \E target \in RecipeTargets(MaxTargets) : ToGraphPath(target)
    \/ ToGraphDependency
    \/ ToGraphReturn
    \/ /\ toGraph.pc = "done"
       /\ toGraph.result = "Ok"
       /\ \E limit \in 0..MaxJobs : StartRun(limit)
    \/ NextTask

SpecBuild == InitBuild /\ [][NextBuild]_vars

\* The last step of target t is BuildStat with k needs, which name k
\* different targets of the recipe other than t; n is its node.
StatCase(t, n, k) ==
    LET steps == toGraph.recipe[t]
        last == steps[Len(steps)]
    IN  /\ Len(steps) >= 2
        /\ last.step = "operation"
        /\ last.op = BuildStat
        /\ Len(last.needs) = k
        /\ Cardinality(Range(last.needs)) = k
        /\ Range(last.needs) \subseteq DOMAIN toGraph.recipe \ {t}
        /\ PathDone(t)
        /\ n = PathCallOf(t).op_nodes[Len(steps) - 1]

\* C38: run gives a BuildStat that ends the path of a target, and whose step
\* has k needs naming k different other targets, k + 1 inputs and k + 1
\* outputs when it executes it, so that its assertion holds.
C38_StatInputsOutputs ==
    \A n \in DOMAIN pc : pc[n] = "exec" =>
        \A t \in DOMAIN toGraph.recipe, k \in 1..MaxNeeds :
            StatCase(t, n, k) =>
                /\ Len(input_files(graph, n)) = k + 1
                /\ Len(output_files(graph, n)) = k + 1

====
